---- MODULE Spec2Model ----
(***************************************************************************)
(* NeST topology control plane (src/nest/topology.py): Namespaces,         *)
(* Interfaces, veth links and the per-interface traffic-control pipeline.  *)
(*                                                                         *)
(* Every method of the source is an operator from program state to program *)
(* state.  A program state s is a record                                   *)
(*   idgen  the counter behind ID_GEN.get_id()                             *)
(*   ns     the heap of Namespace objects (an object is its index)         *)
(*   ifs    the heap of Interface objects (an object is its index)         *)
(*   eng    what the engine (the OS) holds: environments, links, tc nodes  *)
(*   err    the exception in flight ("" when none); once set, every later  *)
(*          statement of the running call is skipped                       *)
(*   cmds   the engine commands the running call has issued, in order      *)
(*   fuse   failure injection: the fuse-th engine command of the running   *)
(*          call fails (0: none does)                                      *)
(*   inj    whether the exception in flight is the injected failure        *)
(*   ret    the value the last statement returned                          *)
(***************************************************************************)
EXTENDS Integers, Sequences, FiniteSets, TLC

(***************************************************************************)
(* Between calls the program state is held in idgen, namespaces,           *)
(* interfaces and engine.  The other variables record what was asked of    *)
(* the program:                                                            *)
(*   result       the last call: its name, arguments, exception, the       *)
(*                engine commands it issued and what it returned           *)
(*   established  the namespace pairs of the connect calls that returned   *)
(*   requested    per Interface, the shaping calls that returned; whether  *)
(*                a call on it raised; whether a failure was injected      *)
(*   failures     the number of calls that raised                          *)
(*   ncalls       the number of calls made                                 *)
(*   experiment   the experiment being run by run_experiment: its flows,   *)
(*                runners and worker processes, and where the main process *)
(*                is in run_experiment and run_workers                     *)
(***************************************************************************)
VARIABLES idgen, namespaces, interfaces, engine, result, established, requested, failures, ncalls, experiment

vars == <<idgen, namespaces, interfaces, engine, result, established, requested, failures, ncalls, experiment>>

-----------------------------------------------------------------------------
(* Bounds of the model *)

MaxCalls == 6
MaxFailures == 1
MaxShapingCalls == 4
MaxObjectCalls == 3
MaxRangeCalls == 3
MaxIdCalls == 4
MaxRouteCalls == 2
MaxThreadCalls == 3
MaxQdiscCalls == 3
MaxFlows == 2
MaxQdiscStats == 1
MaxWorkers == 5

-----------------------------------------------------------------------------
(* Values *)

\* Python's None for an object reference: no Interface has index 0
None == 0

\* the sentinel id of the default (host) namespace
DefaultId == "default"

NoAddress == [type |-> "None", text |-> ""]

Raised(s) == s.err # ""

Raise(s, e) == IF Raised(s) THEN s ELSE [s EXCEPT !.err = e]

Return(s, v) == IF Raised(s) THEN s ELSE [s EXCEPT !.ret = v]

-----------------------------------------------------------------------------
(* The engine: the external command collaborator.  Each command either     *)
(* fails (the injected failure, or the OS refusing it) and raises, or      *)
(* takes effect.                                                           *)

EmptyEngine ==
  [netns |-> {}, veth |-> {}, dev_ns |-> {}, mode |-> {}, ip |-> {},
   route |-> {}, ifb |-> {}, tc |-> {}]

Exec(s, cmd, accepted, eng2) ==
  IF Raised(s) THEN s
  ELSE IF s.fuse = 1 \/ ~accepted
       THEN [s EXCEPT !.err = "ExternalCommandFailed", !.fuse = 0,
                      !.inj = (s.fuse = 1), !.cmds = Append(@, cmd)]
       ELSE [s EXCEPT !.eng = eng2, !.cmds = Append(@, cmd),
                      !.fuse = IF @ > 1 THEN @ - 1 ELSE 0]

create_ns(s, ns_id) ==
  Exec(s, <<"create_ns", ns_id>>, TRUE,
       [s.eng EXCEPT !.netns = @ \cup {ns_id}])

create_veth(s, id1, id2) ==
  Exec(s, <<"create_veth", id1, id2>>, TRUE,
       [s.eng EXCEPT !.veth = @ \cup {<<id1, id2>>}])

add_int_to_ns(s, ns_id, int_id) ==
  Exec(s, <<"add_int_to_ns", ns_id, int_id>>, TRUE,
       [s.eng EXCEPT !.dev_ns = {p \in @ : p[2] # int_id} \cup {<<ns_id, int_id>>}])

set_interface_mode(s, ns_id, int_id, mode) ==
  Exec(s, <<"set_interface_mode", ns_id, int_id, mode>>, TRUE,
       [s.eng EXCEPT !.mode = {p \in @ : p[1] # int_id} \cup {<<int_id, mode>>}])

assign_ip(s, ns_id, int_id, addr) ==
  Exec(s, <<"assign_ip", ns_id, int_id, addr>>, TRUE,
       [s.eng EXCEPT !.ip = @ \cup {<<int_id, addr>>}])

engine_add_route(s, ns_id, dest_addr, next_hop_addr, int_id) ==
  Exec(s, <<"add_route", ns_id, dest_addr, next_hop_addr, int_id>>, TRUE,
       [s.eng EXCEPT !.route = @ \cup {<<ns_id, dest_addr, next_hop_addr, int_id>>}])

-----------------------------------------------------------------------------
(* ID_GEN *)

get_id(s) == [s EXCEPT !.idgen = @ + 1, !.ret = ToString(s.idgen)]

-----------------------------------------------------------------------------
(* class Namespace *)

\* Namespace.__init__ that takes an identifier for the default namespace too
Namespace_alwaysid(s, ns_name) ==
  LET s1 == get_id(s)
  IN IF ns_name # ""
     THEN LET s2 == create_ns(s1, s1.ret)
          IN IF Raised(s2) THEN s2
             ELSE [s2 EXCEPT !.ns = Append(@, [id |-> s1.ret, name |-> ns_name,
                                               interface_list |-> <<>>]),
                             !.ret = Len(s2.ns) + 1]
     ELSE [s1 EXCEPT !.ns = Append(@, [id |-> DefaultId, name |-> "",
                                       interface_list |-> <<>>]),
                     !.ret = Len(s1.ns) + 1]

\* Namespace.__init__: the object joins the heap only when the constructor
\* returns; s.ret is the new object
Namespace(s, ns_name) ==
  IF ns_name # ""
  THEN LET s1 == get_id(s)
           s2 == create_ns(s1, s1.ret)
       IN IF Raised(s2) THEN s2
          ELSE [s2 EXCEPT !.ns = Append(@, [id |-> s1.ret, name |-> ns_name,
                                            interface_list |-> <<>>]),
                          !.ret = Len(s2.ns) + 1]
  ELSE [s EXCEPT !.ns = Append(@, [id |-> DefaultId, name |-> "",
                                   interface_list |-> <<>>]),
                 !.ret = Len(s.ns) + 1]

is_default(s, n) == s.ns[n].id = DefaultId

-----------------------------------------------------------------------------
(* class Interface *)

\* Interface.__init__ that gives an Interface made in a namespace which
\* already has one the identifier of the last Interface made
Interface_sharedid(s, interface_name, namespace) ==
  IF Raised(s) THEN s
  ELSE LET s1 == get_id(s)
           shared == \E x \in DOMAIN s.ifs : s.ifs[x].namespace = namespace
       IN [s1 EXCEPT !.ifs = Append(@, [name |-> interface_name,
                                        id |-> IF shared THEN s.ifs[Len(s.ifs)].id
                                               ELSE s1.ret,
                                        namespace |-> namespace, pair |-> None,
                                        address |-> NoAddress,
                                        mirred_to_ifb |-> FALSE, ifb |-> None,
                                        qdisc_list |-> <<>>, class_list |-> <<>>,
                                        filter_list |-> <<>>]),
                     !.ret = Len(s1.ifs) + 1]

\* Interface.__init__; s.ret is the new object
Interface(s, interface_name, namespace) ==
  IF Raised(s) THEN s
  ELSE LET s1 == get_id(s)
       IN [s1 EXCEPT !.ifs = Append(@, [name |-> interface_name, id |-> s1.ret,
                                        namespace |-> namespace, pair |-> None,
                                        address |-> NoAddress,
                                        mirred_to_ifb |-> FALSE, ifb |-> None,
                                        qdisc_list |-> <<>>, class_list |-> <<>>,
                                        filter_list |-> <<>>]),
                     !.ret = Len(s1.ifs) + 1]

_set_pair(s, i, interface) ==
  IF Raised(s) THEN s ELSE [s EXCEPT !.ifs[i].pair = interface]

_set_namespace(s, i, namespace) ==
  IF Raised(s) THEN s ELSE [s EXCEPT !.ifs[i].namespace = namespace]

\* set_mode that looks at the namespace before it looks at the value
set_mode_nsfirst(s, i, mode) ==
  IF Raised(s) THEN s
  ELSE IF ~is_default(s, s.ifs[i].namespace)
       THEN IF mode = "UP" \/ mode = "DOWN"
            THEN set_interface_mode(s, s.ns[s.ifs[i].namespace].id, s.ifs[i].id,
                                    IF mode = "UP" THEN "up" ELSE "down")
            ELSE Raise(s, "InvalidMode")
       ELSE Raise(s, "NamespaceNotAssigned")

set_mode(s, i, mode) ==
  IF Raised(s) THEN s
  ELSE IF mode = "UP" \/ mode = "DOWN"
       THEN IF ~is_default(s, s.ifs[i].namespace)
            THEN set_interface_mode(s, s.ns[s.ifs[i].namespace].id, s.ifs[i].id,
                                    IF mode = "UP" THEN "up" ELSE "down")
            ELSE Raise(s, "NamespaceNotAssigned")
       ELSE Raise(s, "InvalidMode")

\* add_interface that appends the Interface and does not re-parent it
add_interface_noreparent(s, n, i) ==
  IF Raised(s) THEN s
  ELSE LET s1 == [s EXCEPT !.ns[n].interface_list = Append(@, i)]
       IN add_int_to_ns(s1, s1.ns[n].id, s1.ifs[i].id)

\* Namespace.add_interface
add_interface(s, n, i) ==
  IF Raised(s) THEN s
  ELSE LET s1 == [s EXCEPT !.ns[n].interface_list = Append(@, i)]
           s2 == _set_namespace(s1, i, n)
       IN add_int_to_ns(s2, s2.ns[n].id, s2.ifs[i].id)

-----------------------------------------------------------------------------
(* class Address: an address is its text; a string argument is told from   *)
(* an Address by its type                                                  *)

ValidAddresses == {"10.0.1.1/24", "10.0.1.2/24"}

Str(text) == [type |-> "str", text |-> text]

AddressOf(text) == [type |-> "Address", text |-> text]

\* Address.__init__; s.ret is the new Address
Address(s, addr_str) ==
  IF Raised(s) THEN s
  ELSE IF addr_str \in ValidAddresses
       THEN Return(s, AddressOf(addr_str))
       ELSE Raise(s, "InvalidAddressFormat")

\* Address.get_addr(), with the subnet
get_addr(address) == address.text

\* set_address that stores the address before the engine has assigned it
set_address_early(s, i, address) ==
  LET s1 == IF address.type = "str" THEN Address(s, address.text)
            ELSE Return(s, address)
  IN IF Raised(s1) THEN s1
     ELSE LET s2 == [s1 EXCEPT !.ifs[i].address = s1.ret]
          IN IF ~is_default(s2, s2.ifs[i].namespace)
             THEN assign_ip(s2, s2.ns[s2.ifs[i].namespace].id, s2.ifs[i].id,
                            get_addr(s1.ret))
             ELSE Raise(s2, "NamespaceNotAssigned")

\* Interface.set_address
set_address(s, i, address) ==
  LET s1 == IF address.type = "str" THEN Address(s, address.text)
            ELSE Return(s, address)
  IN IF Raised(s1) THEN s1
     ELSE IF ~is_default(s1, s1.ifs[i].namespace)
          THEN LET s2 == assign_ip(s1, s1.ns[s1.ifs[i].namespace].id,
                                   s1.ifs[i].id, get_addr(s1.ret))
               IN IF Raised(s2) THEN s2
                  ELSE [s2 EXCEPT !.ifs[i].address = s1.ret]
          ELSE Raise(s1, "NamespaceNotAssigned")

\* Interface.get_address
get_address(s, i) == s.ifs[i].address

\* Address.get_addr(without_subnet=True): the text up to the '/'
get_addr_without_subnet(address) ==
  CASE address.text = "10.0.1.1/24" -> "10.0.1.1"
    [] address.text = "10.0.1.2/24" -> "10.0.1.2"
    [] OTHER -> address.text

\* add_route that hands the next hop to the engine as it was given
add_route_unparsed(s, n, dest_addr, next_hop_addr, via_interface) ==
  LET s1 == IF dest_addr.type = "str" THEN Address(s, dest_addr.text)
            ELSE Return(s, dest_addr)
  IN IF Raised(s1) THEN s1
     ELSE engine_add_route(s1, s1.ns[n].id, get_addr_without_subnet(s1.ret),
                           get_addr_without_subnet(next_hop_addr),
                           s1.ifs[via_interface].id)

\* Namespace.add_route
add_route(s, n, dest_addr, next_hop_addr, via_interface) ==
  LET s1 == IF dest_addr.type = "str" THEN Address(s, dest_addr.text)
            ELSE Return(s, dest_addr)
      s2 == IF Raised(s1) THEN s1
            ELSE IF next_hop_addr.type = "str" THEN Address(s1, next_hop_addr.text)
            ELSE Return(s1, next_hop_addr)
  IN IF Raised(s2) THEN s2
     ELSE engine_add_route(s2, s2.ns[n].id, get_addr_without_subnet(s1.ret),
                           get_addr_without_subnet(s2.ret),
                           s2.ifs[via_interface].id)

-----------------------------------------------------------------------------
(* class Veth, connect, number_of_connections *)

\* Veth.__init__ that pairs interface1 with interface2 and not the reverse
Veth_oneway(s, ns1, ns2, interface1_name, interface2_name) ==
  LET s1 == Interface(s, interface1_name, ns1)
      s2 == Interface(s1, interface2_name, ns2)
      s3 == _set_pair(s2, s1.ret, s2.ret)
      s5 == create_veth(s3, s3.ifs[s1.ret].id, s3.ifs[s2.ret].id)
  IN Return(s5, <<s1.ret, s2.ret>>)

\* Veth.__init__ followed by get_interfaces: s.ret is (interface1, interface2)
Veth(s, ns1, ns2, interface1_name, interface2_name) ==
  LET s1 == Interface(s, interface1_name, ns1)
      s2 == Interface(s1, interface2_name, ns2)
      s3 == _set_pair(s2, s1.ret, s2.ret)
      s4 == _set_pair(s3, s2.ret, s1.ret)
      s5 == create_veth(s4, s4.ifs[s1.ret].id, s4.ifs[s2.ret].id)
  IN Return(s5, <<s1.ret, s2.ret>>)

\* the for loop of number_of_connections over interface_list[k..]
RECURSIVE CountFrom(_, _, _, _)
CountFrom(s, list, k, ns2) ==
  IF k > Len(list) THEN [n |-> 0, err |-> ""]
  ELSE IF s.ifs[list[k]].pair = None
       THEN [n |-> 0, err |-> "AttributeError"]
       ELSE LET rest == CountFrom(s, list, k + 1, ns2)
            IN IF s.ifs[s.ifs[list[k]].pair].namespace = ns2
               THEN [rest EXCEPT !.n = @ + 1]
               ELSE rest

\* number_of_connections that counts every interface of the shorter list
number_of_connections_all(s, ns1, ns2) ==
  IF Raised(s) THEN s
  ELSE LET swap == Len(s.ns[ns1].interface_list) > Len(s.ns[ns2].interface_list)
           a == IF swap THEN ns2 ELSE ns1
       IN Return(s, Len(s.ns[a].interface_list))

\* number_of_connections that forgets to exchange ns2 with ns1
number_of_connections_halfswap(s, ns1, ns2) ==
  IF Raised(s) THEN s
  ELSE LET swap == Len(s.ns[ns1].interface_list) > Len(s.ns[ns2].interface_list)
           a == IF swap THEN ns2 ELSE ns1
           c == CountFrom(s, s.ns[a].interface_list, 1, ns2)
       IN IF c.err # "" THEN Raise(s, c.err) ELSE Return(s, c.n)

number_of_connections(s, ns1, ns2) ==
  IF Raised(s) THEN s
  ELSE LET swap == Len(s.ns[ns1].interface_list) > Len(s.ns[ns2].interface_list)
           a == IF swap THEN ns2 ELSE ns1
           b == IF swap THEN ns1 ELSE ns2
           c == CountFrom(s, s.ns[a].interface_list, 1, b)
       IN IF c.err # "" THEN Raise(s, c.err) ELSE Return(s, c.n)

AutoName(id1, id2, connections) ==
  id1 \o "-" \o id2 \o "-" \o ToString(connections)

\* connect that refuses a default namespace before it creates anything
connect_checked(s, ns1, ns2, interface1_name, interface2_name) ==
  IF is_default(s, ns1) \/ is_default(s, ns2)
  THEN Raise(s, "NamespaceNotAssigned")
  ELSE LET auto == interface1_name = "" /\ interface2_name = ""
           s1 == IF auto THEN number_of_connections(s, ns1, ns2) ELSE s
           n1 == IF auto /\ ~Raised(s1)
                 THEN AutoName(s.ns[ns1].id, s.ns[ns2].id, s1.ret)
                 ELSE interface1_name
           n2 == IF auto /\ ~Raised(s1)
                 THEN AutoName(s.ns[ns2].id, s.ns[ns1].id, s1.ret)
                 ELSE interface2_name
           s2 == Veth(s1, ns1, ns2, n1, n2)
           int1 == IF Raised(s2) THEN None ELSE s2.ret[1]
           int2 == IF Raised(s2) THEN None ELSE s2.ret[2]
           s3 == add_interface(s2, ns1, int1)
           s4 == add_interface(s3, ns2, int2)
           s5 == set_mode(s4, int1, "UP")
           s6 == set_mode(s5, int2, "UP")
       IN Return(s6, <<int1, int2>>)

\* connect that brings each Interface up before it adds it to its namespace
connect_upfirst(s, ns1, ns2, interface1_name, interface2_name) ==
  LET auto == interface1_name = "" /\ interface2_name = ""
      s1 == IF auto THEN number_of_connections(s, ns1, ns2) ELSE s
      n1 == IF auto /\ ~Raised(s1)
            THEN AutoName(s.ns[ns1].id, s.ns[ns2].id, s1.ret)
            ELSE interface1_name
      n2 == IF auto /\ ~Raised(s1)
            THEN AutoName(s.ns[ns2].id, s.ns[ns1].id, s1.ret)
            ELSE interface2_name
      s2 == Veth(s1, ns1, ns2, n1, n2)
      int1 == IF Raised(s2) THEN None ELSE s2.ret[1]
      int2 == IF Raised(s2) THEN None ELSE s2.ret[2]
      s3 == set_mode(s2, int1, "UP")
      s4 == add_interface(s3, ns1, int1)
      s5 == set_mode(s4, int2, "UP")
      s6 == add_interface(s5, ns2, int2)
  IN Return(s6, <<int1, int2>>)

connect(s, ns1, ns2, interface1_name, interface2_name) ==
  LET auto ==interface1_name = "" /\ interface2_name = ""
      s1 == IF auto THEN number_of_connections(s, ns1, ns2) ELSE s
      n1 == IF auto /\ ~Raised(s1)
            THEN AutoName(s.ns[ns1].id, s.ns[ns2].id, s1.ret)
            ELSE interface1_name
      n2 == IF auto /\ ~Raised(s1)
            THEN AutoName(s.ns[ns2].id, s.ns[ns1].id, s1.ret)
            ELSE interface2_name
      s2 == Veth(s1, ns1, ns2, n1, n2)
      int1 == IF Raised(s2) THEN None ELSE s2.ret[1]
      int2 == IF Raised(s2) THEN None ELSE s2.ret[2]
      s3 == add_interface(s2, ns1, int1)
      s4 == add_interface(s3, ns2, int2)
      s5 == set_mode(s4, int1, "UP")
      s6 == set_mode(s5, int2, "UP")
  IN Return(s6, <<int1, int2>>)

-----------------------------------------------------------------------------
(* The engine's traffic-control tree: the nodes installed on each device.  *)
(* The OS refuses to install a node twice or under a missing parent, and   *)
(* to change a node that is not installed.                                 *)

TcNode(dev, kind, type, parent, handle, value) ==
  [dev |-> dev, kind |-> kind, type |-> type, parent |-> parent,
   handle |-> handle, value |-> value]

Installed(eng, dev, kind, handle) ==
  \E n \in eng.tc : n.dev = dev /\ n.kind = kind /\ n.handle = handle

setup_ifb(s, ns_id, ifb_id) ==
  Exec(s, <<"setup_ifb", ns_id, ifb_id>>, TRUE,
       [s.eng EXCEPT !.ifb = @ \cup {ifb_id}])

engine_add_qdisc(s, ns_id, dev, qdisc, parent, handle, value) ==
  Exec(s, <<"add_qdisc", ns_id, dev, qdisc, parent, handle, value>>,
       /\ ~Installed(s.eng, dev, "qdisc", handle)
       /\ IF parent = "root"
          THEN ~\E n \in s.eng.tc : n.dev = dev /\ n.kind = "qdisc" /\ n.parent = "root"
          ELSE Installed(s.eng, dev, "class", parent),
       [s.eng EXCEPT !.tc = @ \cup {TcNode(dev, "qdisc", qdisc, parent, handle, value)}])

engine_add_class(s, ns_id, dev, qdisc, parent, classid, value) ==
  Exec(s, <<"add_class", ns_id, dev, qdisc, parent, classid, value>>,
       /\ ~Installed(s.eng, dev, "class", classid)
       /\ Installed(s.eng, dev, "qdisc", parent),
       [s.eng EXCEPT !.tc = @ \cup {TcNode(dev, "class", qdisc, parent, classid, value)}])

engine_add_filter(s, ns_id, dev, protocol, priority, filtertype, parent, redirect) ==
  Exec(s, <<"add_filter", ns_id, dev, protocol, priority, filtertype, parent, redirect>>,
       /\ Installed(s.eng, dev, "qdisc", parent)
       /\ redirect \in s.eng.ifb,
       [s.eng EXCEPT !.tc = @ \cup {TcNode(dev, "filter", filtertype, parent, "", redirect)}])

\* engine.exec_subprocess('ip netns exec {} tc class change dev {} parent {}
\* classid {} htb rate {}')
tc_class_change(s, ns_id, dev, parent, classid, rate) ==
  Exec(s, <<"tc class change", ns_id, dev, parent, classid, rate>>,
       \E n \in s.eng.tc : n.dev = dev /\ n.kind = "class" /\ n.parent = parent
                           /\ n.handle = classid,
       [s.eng EXCEPT !.tc = {IF n.dev = dev /\ n.kind = "class" /\ n.handle = classid
                             THEN [n EXCEPT !.value = rate] ELSE n : n \in @}])

\* engine.exec_subprocess('ip netns exec {} tc qdisc change dev {} parent {}
\* handle {} netem delay {}')
tc_qdisc_change(s, ns_id, dev, parent, handle, delay) ==
  Exec(s, <<"tc qdisc change", ns_id, dev, parent, handle, delay>>,
       \E n \in s.eng.tc : n.dev = dev /\ n.kind = "qdisc" /\ n.parent = parent
                           /\ n.handle = handle,
       [s.eng EXCEPT !.tc = {IF n.dev = dev /\ n.kind = "qdisc" /\ n.handle = handle
                             THEN [n EXCEPT !.value = delay] ELSE n : n \in @}])

-----------------------------------------------------------------------------
(* class Interface: the traffic-control pipeline *)

NsId(s, i) == s.ns[s.ifs[i].namespace].id

\* Interface.add_qdisc: traffic_control.Qdisc hands the node and its keyword
\* parameters to the engine, then the object is appended
add_qdisc(s, i, qdisc, parent, handle, value) ==
  LET s1 == engine_add_qdisc(s, NsId(s, i), s.ifs[i].id, qdisc, parent, handle, value)
  IN IF Raised(s1) THEN s1
     ELSE [s1 EXCEPT !.ifs[i].qdisc_list =
                       Append(@, [qdisc |-> qdisc, parent |-> parent,
                                  handle |-> handle])]

\* Interface.add_class
add_class(s, i, qdisc, parent, classid, value) ==
  LET s1 == engine_add_class(s, NsId(s, i), s.ifs[i].id, qdisc, parent, classid, value)
  IN IF Raised(s1) THEN s1
     ELSE [s1 EXCEPT !.ifs[i].class_list =
                       Append(@, [qdisc |-> qdisc, parent |-> parent,
                                  classid |-> classid])]

\* _create_ifb that also hands the mirror to the primary's Namespace
_create_ifb_owned(s, i) ==
  IF Raised(s) THEN s
  ELSE LET s1 == Interface(s, "ifb", s.ifs[i].namespace)
           s2 == [s1 EXCEPT !.ifs[i].ifb = s1.ret,
                            !.ns[s.ifs[i].namespace].interface_list =
                               Append(@, s1.ret)]
       IN setup_ifb(s2, NsId(s2, s1.ret), s2.ifs[s1.ret].id)

_create_ifb(s, i) ==
  IF Raised(s) THEN s
  ELSE LET s1 == Interface(s, "ifb", s.ifs[i].namespace)
           s2 == [s1 EXCEPT !.ifs[i].ifb = s1.ret]
       IN setup_ifb(s2, NsId(s2, s1.ret), s2.ifs[s1.ret].id)

\* _mirred_to_ifb that installs the class before the root discipline
_mirred_to_ifb_classfirst(s, i) ==
  IF Raised(s) THEN s
  ELSE LET s1 == [s EXCEPT !.ifs[i].mirred_to_ifb = TRUE]
           s2 == _create_ifb(s1, i)
           s3 == add_class(s2, i, "htb", "1:", "1:1", "rate 10mbit")
           s4 == add_qdisc(s3, i, "htb", "root", "1:", "default 1")
           s5 == add_qdisc(s4, i, "netem", "1:1", "11:", "")
       IN IF Raised(s5) THEN s5
          ELSE engine_add_filter(s5, NsId(s5, i), s5.ifs[i].id, "ip", "1", "u32",
                                 "1:", s5.ifs[s5.ifs[i].ifb].id)

\* _mirred_to_ifb that sets the flag once the pipeline is complete
_mirred_to_ifb_flaglast(s, i) ==
  IF Raised(s) THEN s
  ELSE LET s2 == _create_ifb(s, i)
           s3 == add_qdisc(s2, i, "htb", "root", "1:", "default 1")
           s4 == add_class(s3, i, "htb", "1:", "1:1", "rate 10mbit")
           s5 == add_qdisc(s4, i, "netem", "1:1", "11:", "")
           s6 == IF Raised(s5) THEN s5
                 ELSE engine_add_filter(s5, NsId(s5, i), s5.ifs[i].id, "ip", "1",
                                        "u32", "1:", s5.ifs[s5.ifs[i].ifb].id)
       IN IF Raised(s6) THEN s6 ELSE [s6 EXCEPT !.ifs[i].mirred_to_ifb = TRUE]

_mirred_to_ifb(s, i) ==
  IF Raised(s) THEN s
  ELSE LET s1 == [s EXCEPT !.ifs[i].mirred_to_ifb = TRUE]
           s2 == _create_ifb(s1, i)
           s3 == add_qdisc(s2, i, "htb", "root", "1:", "default 1")
           s4 == add_class(s3, i, "htb", "1:", "1:1", "rate 10mbit")
           s5 == add_qdisc(s4, i, "netem", "1:1", "11:", "")
       IN IF Raised(s5) THEN s5
          ELSE engine_add_filter(s5, NsId(s5, i), s5.ifs[i].id, "ip", "1", "u32",
                                 "1:", s5.ifs[s5.ifs[i].ifb].id)

\* set_min_bandwidth that sets the rate only while it builds the pipeline
set_min_bandwidth_once(s, i, min_rate) ==
  IF ~s.ifs[i].mirred_to_ifb
  THEN LET s1 == _mirred_to_ifb(s, i)
       IN tc_class_change(s1, NsId(s, i), s.ifs[i].id, "1:", "1:1",
                          "rate " \o ToString(min_rate))
  ELSE s

set_min_bandwidth(s, i, min_rate) ==
  LET s1 == IF ~s.ifs[i].mirred_to_ifb THEN _mirred_to_ifb(s, i) ELSE s
  IN tc_class_change(s1, NsId(s, i), s.ifs[i].id, "1:", "1:1",
                     "rate " \o ToString(min_rate))

\* set_delay that runs the transition on every call
set_delay_always(s, i, delay) ==
  LET s1 == _mirred_to_ifb(s, i)
  IN tc_qdisc_change(s1, NsId(s, i), s.ifs[i].id, "1:1", "11:",
                     "delay " \o ToString(delay))

\* set_delay that relies on set_min_bandwidth having built the pipeline
set_delay_nomirror(s, i, delay) ==
  tc_qdisc_change(s, NsId(s, i), s.ifs[i].id, "1:1", "11:",
                  "delay " \o ToString(delay))

set_delay(s, i, delay) ==
  LET s1 == IF ~s.ifs[i].mirred_to_ifb THEN _mirred_to_ifb(s, i) ELSE s
  IN tc_qdisc_change(s1, NsId(s, i), s.ifs[i].id, "1:1", "11:",
                     "delay " \o ToString(delay))

\* Interface.set_qdisc.  `self._mirred_to_ifb is False` compares the bound
\* method with False, which never holds, so the transition is never run
\* here; self.ifb.add_qdisc('codel') then raises AttributeError when the
\* mirror is None, and otherwise adds a root codel discipline with an empty
\* handle to the mirror, whatever discipline was asked for.
set_qdisc(s, i, qdisc) ==
  IF Raised(s) THEN s
  ELSE IF s.ifs[i].ifb = None
       THEN Raise(s, "AttributeError")
       ELSE add_qdisc(s, s.ifs[i].ifb, "codel", "root", "", "")

-----------------------------------------------------------------------------
(* Program state and calls *)

\* no experiment is being run
NoExperiment == [pc |-> "none"]

Empty ==
  [idgen |-> 0, ns |-> <<>>, ifs |-> <<>>, eng |-> EmptyEngine,
   err |-> "", cmds |-> <<>>, fuse |-> 0, inj |-> FALSE, ret |-> None]

Cur ==
  [idgen |-> idgen, ns |-> namespaces, ifs |-> interfaces, eng |-> engine,
   err |-> "", cmds |-> <<>>, fuse |-> 0, inj |-> FALSE, ret |-> None]

\* the state a call starts in: no exception, no command issued yet
Call(s, f) ==
  [s EXCEPT !.err = "", !.cmds = <<>>, !.fuse = f, !.inj = FALSE, !.ret = None]

\* the program state after a call, and what the caller saw of it
Becomes(s, op, args) ==
  /\ idgen' = s.idgen
  /\ namespaces' = s.ns
  /\ interfaces' = s.ifs
  /\ engine' = s.eng
  /\ result' = [op |-> op, args |-> args, err |-> s.err, cmds |-> s.cmds,
                injected |-> s.inj, ret |-> IF Raised(s) THEN None ELSE s.ret]
  /\ failures' = IF Raised(s) THEN failures + 1 ELSE failures
  /\ ncalls' = ncalls + 1
  /\ experiment' = experiment

\* the failures an action may inject: none once the budget is spent
Fuses(n) == IF failures < MaxFailures THEN 0 .. n ELSE {0}

NoResult ==
  [op |-> "init", args |-> <<>>, err |-> "", cmds |-> <<>>, injected |-> FALSE,
   ret |-> None]

IfNames == {<<"", "">>, <<"eth-a", "eth-b">>}

Init ==
  /\ idgen = 0
  /\ namespaces = <<>>
  /\ interfaces = <<>>
  /\ engine = EmptyEngine
  /\ result = NoResult
  /\ established = <<>>
  /\ requested = <<>>
  /\ failures = 0
  /\ ncalls = 0
  /\ experiment = NoExperiment

NewNamespace ==
  /\ ncalls < MaxCalls
  /\ Becomes(Namespace(Call(Cur, 0), "n"), "Namespace", <<"n">>)
  /\ UNCHANGED <<established, requested>>

Connect ==
  \E a \in 1 .. Len(namespaces), b \in 1 .. Len(namespaces),
     names \in IfNames :
    /\ ncalls < MaxCalls
    /\ LET s == connect(Call(Cur, 0), a, b, names[1], names[2])
       IN /\ Becomes(s, "connect", <<a, b, names[1], names[2]>>)
          /\ established' = IF Raised(s) THEN established
                            ELSE Append(established, <<a, b>>)
    /\ UNCHANGED requested

Next == NewNamespace \/ Connect

Spec == Init /\ [][Next]_vars

-----------------------------------------------------------------------------
(* Claims about links, over the runs of Spec *)

Ifs == DOMAIN interfaces

Nss == DOMAIN namespaces

\* the connect calls that returned, between the unordered pair {a, b}
LinksBetween(a, b) ==
  Cardinality({k \in DOMAIN established :
                 {established[k][1], established[k][2]} = {a, b}})

ConnectReturned == result.op = "connect" /\ result.err = ""

AutoConnectReturned ==
  ConnectReturned /\ result.args[3] = "" /\ result.args[4] = ""

\* C1: the two Interfaces a connect returns are each other's pair, and every
\* Interface that has a pair is the pair of its pair.
PairingSymmetric ==
  /\ \A x \in Ifs :
        interfaces[x].pair # None => interfaces[interfaces[x].pair].pair = x
  /\ ConnectReturned =>
        /\ interfaces[result.ret[1]].pair = result.ret[2]
        /\ interfaces[result.ret[2]].pair = result.ret[1]

PairingSymmetricWitness ==
  /\ ConnectReturned
  /\ Len(established) >= 2
  /\ result.ret[1] # result.ret[2]

\* C6: a connect of two distinct namespaces A, B with both names omitted,
\* made when k links exist between A and B, names its Interfaces
\* "<A.id>-<B.id>-<k>" and "<B.id>-<A.id>-<k>", whatever links exist between
\* other pairs; and no two Interfaces have the same identifier.
AutoNamesOrdinal ==
  /\ AutoConnectReturned /\ result.args[1] # result.args[2] =>
        LET a == result.args[1]
            b == result.args[2]
            k == LinksBetween(a, b) - 1
        IN /\ interfaces[result.ret[1]].name =
                namespaces[a].id \o "-" \o namespaces[b].id \o "-" \o ToString(k)
           /\ interfaces[result.ret[2]].name =
                namespaces[b].id \o "-" \o namespaces[a].id \o "-" \o ToString(k)
  /\ \A x, y \in Ifs : x # y => interfaces[x].id # interfaces[y].id

\* the second auto-named connect of a pair, a link of another pair in between
AutoNamesOrdinalWitness ==
  /\ AutoConnectReturned
  /\ Len(established) = 3
  /\ result.args[1] # result.args[2]
  /\ {established[1][1], established[1][2]} = {result.args[1], result.args[2]}
  /\ {established[2][1], established[2][2]} # {result.args[1], result.args[2]}
  /\ established[2][1] # established[2][2]
  /\ {established[2][1], established[2][2]} \cap {result.args[1], result.args[2]} # {}
  /\ \A x \in Ifs : interfaces[x].name \notin {"eth-a", "eth-b"}
  /\ LinksBetween(result.args[1], result.args[2]) = 2

\* C7: for distinct namespaces A and B, number_of_connections(A, B) and
\* number_of_connections(B, A) both return the number of links established
\* between A and B (the quantifier takes the pair in both orders).
ConnectionsCounted ==
  \A a, b \in Nss :
    a # b =>
      LET s == number_of_connections(Cur, a, b)
      IN s.err = "" /\ s.ret = LinksBetween(a, b)

\* two links between A and B while A holds more interfaces than B
ConnectionsCountedWitness ==
  \E a, b, c \in Nss :
    /\ a # b /\ c # a /\ c # b
    /\ LinksBetween(a, b) = 2
    /\ LinksBetween(a, c) = 1
    /\ number_of_connections(Cur, a, b).ret = 2

-----------------------------------------------------------------------------
(* Shaping: the calls set_min_bandwidth and set_delay on the two           *)
(* Interfaces of one link between two named namespaces, with engine        *)
(* failures                                                                *)

\* n0 = Namespace('n'); r0 = Namespace('n'); connect(n0, r0)
Topology ==
  connect(Call(Namespace(Call(Namespace(Empty, "n"), 0), "n"), 0), 1, 2, "", "")

Rates == {5, 10}

Delays == {20, 30}

\* the Interfaces the caller holds: the two connect returned
Primaries == DOMAIN requested

InitShape ==
  /\ idgen = Topology.idgen
  /\ namespaces = Topology.ns
  /\ interfaces = Topology.ifs
  /\ engine = Topology.eng
  /\ result = NoResult
  /\ established = << <<1, 2>> >>
  /\ requested = [i \in {Topology.ret[1], Topology.ret[2]} |->
                    [calls |-> <<>>, injected |-> FALSE, failed |-> FALSE]]
  /\ failures = 0
  /\ ncalls = 0
  /\ experiment = NoExperiment

\* the calls on i that returned, whether a failure was injected into a call
\* on i, and whether a call on i raised
Requested(s, op, i, value) ==
  requested' =
    [requested EXCEPT ![i] =
       [calls |-> IF Raised(s) THEN @.calls ELSE Append(@.calls, <<op, value>>),
        injected |-> @.injected \/ s.inj,
        failed |-> @.failed \/ Raised(s)]]

SetMinBandwidth ==
  \E i \in Primaries, min_rate \in Rates, f \in Fuses(6) :
    /\ ncalls < MaxShapingCalls
    /\ LET s == set_min_bandwidth(Call(Cur, f), i, min_rate)
       IN /\ Becomes(s, "set_min_bandwidth", <<i, min_rate>>)
          /\ Requested(s, "set_min_bandwidth", i, min_rate)
    /\ UNCHANGED established

SetDelay ==
  \E i \in Primaries, delay \in Delays, f \in Fuses(6) :
    /\ ncalls < MaxShapingCalls
    /\ LET s == set_delay(Call(Cur, f), i, delay)
       IN /\ Becomes(s, "set_delay", <<i, delay>>)
          /\ Requested(s, "set_delay", i, delay)
    /\ UNCHANGED established

NextShape == SetMinBandwidth \/ SetDelay

SpecShape == InitShape /\ [][NextShape]_vars

-----------------------------------------------------------------------------
(* Claims about shaping, over the runs of SpecShape *)

\* what the engine holds for Interface i
TcOf(i) == {n \in engine.tc : n.dev = interfaces[i].id}

CallsOf(i, op) == SelectSeq(requested[i].calls, LAMBDA c : c[1] = op)

\* the value of the last call of op on i that returned
LastOf(i, op) == CallsOf(i, op)[Len(CallsOf(i, op))][2]

ShapingCall == result.op \in {"set_min_bandwidth", "set_delay"}

\* C2: after two or more set_min_bandwidth calls on an Interface returned,
\* the Interface records one class, 1:1, and the engine holds one class for
\* it, 1:1 under 1:, whose rate is that of the last call.
BandwidthMutatedInPlace ==
  \A i \in Primaries :
    Len(CallsOf(i, "set_min_bandwidth")) >= 2 =>
      /\ Len(interfaces[i].class_list) = 1
      /\ interfaces[i].class_list[1].classid = "1:1"
      /\ {n \in TcOf(i) : n.kind = "class"} =
           {TcNode(interfaces[i].id, "class", "htb", "1:", "1:1",
                   "rate " \o ToString(LastOf(i, "set_min_bandwidth")))}

\* two set_min_bandwidth calls with different rates returned
BandwidthMutatedInPlaceWitness ==
  \E i \in Primaries :
    LET bw == CallsOf(i, "set_min_bandwidth")
    IN /\ Len(bw) >= 2
       /\ bw[Len(bw)][2] # bw[Len(bw) - 1][2]
       /\ result.op = "set_min_bandwidth" /\ result.err = ""

\* C3: a shaping call that ran the Unshaped -> Mirrored transition and failed
\* in one of its five steps leaves the Interface's mirrored flag false.
FailedTransitionLeavesUnshaped ==
  ( /\ ShapingCall
    /\ result.err # ""
    /\ Len(result.cmds) \in 1 .. 5
    /\ result.cmds[1][1] = "setup_ifb" )
  => ~interfaces[result.args[1]].mirred_to_ifb

\* one shaping call on Interface i, from the state before it to the state after
MirrorStep(i) ==
  /\ interfaces[i].mirred_to_ifb =>
       /\ interfaces'[i].mirred_to_ifb
       /\ interfaces'[i].ifb = interfaces[i].ifb
       /\ Len(interfaces') = Len(interfaces)
       /\ \A k \in DOMAIN result'.cmds :
            result'.cmds[k][1] \in {"tc class change", "tc qdisc change"}
  /\ ~interfaces[i].mirred_to_ifb =>
       /\ interfaces'[i].mirred_to_ifb
       /\ Len(interfaces') = Len(interfaces) + 1
       /\ interfaces'[i].ifb = Len(interfaces')
       /\ interfaces'[Len(interfaces')].name = "ifb"

\* C4: the first shaping call on an Interface creates its IFB mirror; every
\* later shaping call keeps the flag and the mirror, creates no Interface
\* and issues only its change command.
MirroredOnce ==
  [][\A i \in Primaries : result'.args[1] = i => MirrorStep(i)]_vars

\* an Interface shaped by both operations, more than twice
MirroredOnceWitness ==
  \E i \in Primaries :
    /\ Len(CallsOf(i, "set_min_bandwidth")) >= 1
    /\ Len(CallsOf(i, "set_delay")) >= 1
    /\ Len(requested[i].calls) >= 3
    /\ interfaces[i].mirred_to_ifb
    /\ interfaces[i].ifb # None

\* the pipeline of Interface i with class rate and delay as given
Canonical(i, min_rate, delay) ==
  { TcNode(interfaces[i].id, "qdisc", "htb", "root", "1:", "default 1"),
    TcNode(interfaces[i].id, "class", "htb", "1:", "1:1", "rate " \o ToString(min_rate)),
    TcNode(interfaces[i].id, "qdisc", "netem", "1:1", "11:", "delay " \o ToString(delay)),
    TcNode(interfaces[i].id, "filter", "u32", "1:", "", interfaces[interfaces[i].ifb].id) }

\* C5: when no failure is injected into the calls on an Interface, each of
\* them returns, and once set_min_bandwidth(r) and set_delay(d) have both
\* been called, in either order, the Interface has one IFB mirror and the
\* engine holds for it the canonical nodes with rate r and delay d.
OrderIndependent ==
  \A i \in Primaries :
    ~requested[i].injected =>
      /\ ~requested[i].failed
      /\ ( /\ CallsOf(i, "set_min_bandwidth") # <<>>
           /\ CallsOf(i, "set_delay") # <<>> ) =>
           /\ interfaces[i].ifb # None
           /\ Cardinality({j \in Ifs : interfaces[j].name = "ifb" /\
                             interfaces[j].namespace = interfaces[i].namespace}) = 1
           /\ interfaces[interfaces[i].ifb].id \in engine.ifb
           /\ TcOf(i) = Canonical(i, LastOf(i, "set_min_bandwidth"), LastOf(i, "set_delay"))
           /\ Len(interfaces[i].qdisc_list) = 2
           /\ Len(interfaces[i].class_list) = 1

\* one Interface shaped delay first, the other bandwidth first, same values
OrderIndependentWitness ==
  \E i, j \in Primaries, r \in Rates, d \in Delays :
    /\ requested[i].calls = << <<"set_delay", d>>, <<"set_min_bandwidth", r>> >>
    /\ requested[j].calls = << <<"set_min_bandwidth", r>>, <<"set_delay", d>> >>
    /\ ~requested[i].failed /\ ~requested[j].failed

\* the command that installs a node of the given kind
AddCmd(kind) == IF kind = "qdisc" THEN "add_qdisc" ELSE "add_class"

\* a node of this kind and handle is on dev before command k of cmds: the
\* engine held it when the call began, or an earlier command installed it
NodeBefore(cmds, k, dev, kind, handle) ==
  \/ \E n \in engine.tc : n.dev = dev /\ n.kind = kind /\ n.handle = handle
  \/ \E j \in 1 .. k - 1 :
       cmds[j][1] = AddCmd(kind) /\ cmds[j][3] = dev /\ cmds[j][6] = handle

\* the same, the node being under the given parent
NodeBeforeUnder(cmds, k, dev, kind, parent, handle) ==
  \/ \E n \in engine.tc :
       n.dev = dev /\ n.kind = kind /\ n.parent = parent /\ n.handle = handle
  \/ \E j \in 1 .. k - 1 :
       /\ cmds[j][1] = AddCmd(kind) /\ cmds[j][3] = dev
       /\ cmds[j][5] = parent /\ cmds[j][6] = handle

MirrorBefore(cmds, k, ifb_id) ==
  \/ ifb_id \in engine.ifb
  \/ \E j \in 1 .. k - 1 : cmds[j][1] = "setup_ifb" /\ cmds[j][3] = ifb_id

\* command k of cmds names only what is installed before it
RefersToInstalled(cmds, k) ==
  LET c == cmds[k]
  IN CASE c[1] = "add_qdisc" ->
            c[5] # "root" => NodeBefore(cmds, k, c[3], "class", c[5])
       [] c[1] = "add_class" -> NodeBefore(cmds, k, c[3], "qdisc", c[5])
       [] c[1] = "add_filter" ->
            NodeBefore(cmds, k, c[3], "qdisc", c[7]) /\ MirrorBefore(cmds, k, c[8])
       [] c[1] = "tc class change" ->
            /\ c[4] = "1:" /\ c[5] = "1:1"
            /\ NodeBeforeUnder(cmds, k, c[3], "class", c[4], c[5])
       [] c[1] = "tc qdisc change" ->
            /\ c[4] = "1:1" /\ c[5] = "11:"
            /\ NodeBeforeUnder(cmds, k, c[3], "qdisc", c[4], c[5])
       [] OTHER -> c[1] = "setup_ifb"

\* C13: while no engine failure has been injected, every command a shaping
\* call issues is for the Interface it was called on and names only nodes
\* installed before it: the IFB is set up before the redirect filter names
\* it, 1: is installed before 1:1, 1:1 before 11:, the class change names
\* class 1:1 under 1: and the qdisc change names 11: under 1:1, each after
\* the node was installed with those handles; and the call returns.
CommandsReferToInstalled ==
  [][(ShapingCall' /\ \A i \in Primaries : ~requested'[i].injected) =>
       /\ result'.err = ""
       /\ \A k \in DOMAIN result'.cmds :
            /\ RefersToInstalled(result'.cmds, k)
            /\ result'.cmds[k][1] # "setup_ifb" =>
                 result'.cmds[k][3] = interfaces[result'.args[1]].id]_vars

\* set_delay built the pipeline of an Interface and set_min_bandwidth then
\* issued its change alone, in a run without failures
CommandsReferToInstalledWitness ==
  /\ \A i \in Primaries : ~requested[i].injected
  /\ result.op = "set_min_bandwidth"
  /\ Len(result.cmds) = 1
  /\ requested[result.args[1]].calls[1][1] = "set_delay"
  /\ \E j \in Primaries : j # result.args[1] /\ Len(requested[j].calls) = 2

-----------------------------------------------------------------------------
(* Interfaces as objects: the constructor, _set_pair and set_address called *)
(* directly, on the Interfaces of one link between two named namespaces and *)
(* on Interfaces made in the default namespace                              *)

\* n0 = Namespace('n'); r0 = Namespace('n'); connect(n0, r0); Namespace('')
TopologyWithDefault == Namespace(Call(Topology, 0), "")

AddressArgs == {Str("10.0.1.1/24"), Str("10.0.1"), AddressOf("10.0.1.2/24")}

InitObj ==
  /\ idgen = TopologyWithDefault.idgen
  /\ namespaces = TopologyWithDefault.ns
  /\ interfaces = TopologyWithDefault.ifs
  /\ engine = TopologyWithDefault.eng
  /\ result = NoResult
  /\ established = << <<1, 2>> >>
  /\ requested = <<>>
  /\ failures = 0
  /\ ncalls = 0
  /\ experiment = NoExperiment

NewInterface ==
  \E n \in DOMAIN namespaces :
    /\ ncalls < MaxObjectCalls
    /\ Becomes(Interface(Call(Cur, 0), "eth", n), "Interface", <<"eth", n>>)
    /\ UNCHANGED <<established, requested>>

SetPair ==
  \E i \in DOMAIN interfaces, j \in DOMAIN interfaces :
    /\ ncalls < MaxObjectCalls
    /\ Becomes(_set_pair(Call(Cur, 0), i, j), "_set_pair", <<i, j>>)
    /\ UNCHANGED <<established, requested>>

SetAddress ==
  \E i \in DOMAIN interfaces, address \in AddressArgs, f \in Fuses(1) :
    /\ ncalls < MaxObjectCalls
    /\ Becomes(set_address(Call(Cur, f), i, address), "set_address", <<i, address>>)
    /\ UNCHANGED <<established, requested>>

NextObj == NewInterface \/ SetPair \/ SetAddress

SpecObj == InitObj /\ [][NextObj]_vars

-----------------------------------------------------------------------------
(* Claims about Interfaces as objects, over the runs of SpecObj *)

\* C9: an Interface's pair, once set, never changes.
PairNeverChanges ==
  [][\A x \in Ifs :
       interfaces[x].pair # None => interfaces'[x].pair = interfaces[x].pair]_vars

\* set_address called on Interface i with a given address
SetAddressCalled(i, address) ==
  result'.op = "set_address" /\ result'.args = <<i, address>>

WellFormed(address) == address.type = "Address" \/ address.text \in ValidAddresses

IsDefaultNs(i) == namespaces[interfaces[i].namespace].id = "default"

AssignIssued(cmds) == \E k \in DOMAIN cmds : cmds[k][1] = "assign_ip"

\* C10 as stated: set_address on an Interface of the default namespace fails
\* with NamespaceNotAssigned, issues no assign_ip and keeps the stored Address.
SetAddressDefaultAlwaysNotAssigned ==
  [][\A i \in Ifs, address \in AddressArgs :
       SetAddressCalled(i, address) /\ IsDefaultNs(i) =>
         /\ result'.err = "NamespaceNotAssigned"
         /\ ~AssignIssued(result'.cmds)
         /\ interfaces'[i].address = interfaces[i].address]_vars

\* C10 (amended): with a well-formed address, set_address on an Interface of
\* the default namespace fails with NamespaceNotAssigned, issues no assign_ip
\* and keeps the stored Address; on another namespace it issues one assign_ip
\* and, when the engine accepts it, returns with get_address giving that
\* Address, and when the engine fails keeps the stored Address.  A malformed
\* string fails with InvalidAddressFormat in either case, with no assign_ip
\* and the stored Address kept.
SetAddressContract ==
  [][\A i \in Ifs, address \in AddressArgs :
       SetAddressCalled(i, address) =>
         /\ WellFormed(address) /\ IsDefaultNs(i) =>
              /\ result'.err = "NamespaceNotAssigned"
              /\ result'.cmds = <<>>
              /\ interfaces'[i].address = interfaces[i].address
              /\ engine' = engine
         /\ WellFormed(address) /\ ~IsDefaultNs(i) =>
              /\ result'.cmds = << <<"assign_ip", namespaces[interfaces[i].namespace].id,
                                     interfaces[i].id, address.text>> >>
              /\ result'.err \in {"", "ExternalCommandFailed"}
              /\ result'.err = "" <=> ~result'.injected
              /\ result'.err = "" =>
                   /\ interfaces'[i].address = AddressOf(address.text)
                   /\ <<interfaces[i].id, address.text>> \in engine'.ip
              /\ result'.err # "" =>
                   interfaces'[i].address = interfaces[i].address
         /\ ~WellFormed(address) =>
              /\ result'.err = "InvalidAddressFormat"
              /\ result'.cmds = <<>>
              /\ interfaces'[i].address = interfaces[i].address]_vars

\* set_address refused on an Interface of the default namespace, after an
\* Interface of a named namespace was addressed
SetAddressContractWitness ==
  /\ result.op = "set_address"
  /\ result.err = "NamespaceNotAssigned"
  /\ IsDefaultNs(result.args[1])
  /\ \E i \in Ifs : ~IsDefaultNs(i) /\ interfaces[i].address # NoAddress

\* C8: when every connect so far omitted both names, no two Interfaces carry
\* the same name.
AutoNamesNeverCollide ==
  (\A x \in Ifs : interfaces[x].name \notin {"eth-a", "eth-b"}) =>
    \A x, y \in Ifs : x # y => interfaces[x].name # interfaces[y].name

-----------------------------------------------------------------------------
(* set_mode called directly, on the Interfaces of one link between two     *)
(* named namespaces and on Interfaces made in the default namespace        *)

Modes == {"UP", "DOWN", "up"}

SetMode ==
  \E i \in DOMAIN interfaces, mode \in Modes, f \in Fuses(1) :
    /\ ncalls < MaxObjectCalls
    /\ Becomes(set_mode(Call(Cur, f), i, mode), "set_mode", <<i, mode>>)
    /\ UNCHANGED <<established, requested>>

NextMode == NewInterface \/ SetMode

SpecMode == InitObj /\ [][NextMode]_vars

SetModeCalled(i, mode) == result'.op = "set_mode" /\ result'.args = <<i, mode>>

ModeIssued(cmds) == \E k \in DOMAIN cmds : cmds[k][1] = "set_interface_mode"

\* C11: set_mode with a value other than UP or DOWN fails with InvalidMode,
\* on an Interface of the default namespace too; set_mode with UP or DOWN on
\* an Interface of the default namespace fails with NamespaceNotAssigned; in
\* both cases no set_interface_mode is issued and the engine is untouched.
\* With UP or DOWN on another namespace one set_interface_mode is issued, for
\* the Interface's namespace and id with the value in lower case.
SetModeContract ==
  [][\A i \in Ifs, mode \in Modes :
       SetModeCalled(i, mode) =>
         /\ mode \notin {"UP", "DOWN"} =>
              /\ result'.err = "InvalidMode"
              /\ ~ModeIssued(result'.cmds)
              /\ result'.cmds = <<>>
              /\ engine' = engine
         /\ mode \in {"UP", "DOWN"} /\ IsDefaultNs(i) =>
              /\ result'.err = "NamespaceNotAssigned"
              /\ ~ModeIssued(result'.cmds)
              /\ result'.cmds = <<>>
              /\ engine' = engine
         /\ mode \in {"UP", "DOWN"} /\ ~IsDefaultNs(i) =>
              /\ result'.cmds =
                   << <<"set_interface_mode", namespaces[interfaces[i].namespace].id,
                        interfaces[i].id, IF mode = "UP" THEN "up" ELSE "down">> >>
              /\ result'.err = "" <=> ~result'.injected]_vars

\* an invalid value refused on an Interface of the default namespace, after
\* an Interface of a named namespace was set DOWN
SetModeContractWitness ==
  /\ result.op = "set_mode"
  /\ result.err = "InvalidMode"
  /\ result.args[2] = "up"
  /\ IsDefaultNs(result.args[1])
  /\ \E i \in Ifs : ~IsDefaultNs(i) /\ <<interfaces[i].id, "down">> \in engine.mode

-----------------------------------------------------------------------------
(* Shaping with any integer value, in range or not, on the two Interfaces  *)
(* of one link between two named namespaces                                *)

AnyRates == {-1, 0, 5}

AnyDelays == {-1, 0, 20}

SetMinBandwidthAny ==
  \E i \in Primaries, min_rate \in AnyRates :
    /\ ncalls < MaxRangeCalls
    /\ LET s == set_min_bandwidth(Call(Cur, 0), i, min_rate)
       IN /\ Becomes(s, "set_min_bandwidth", <<i, min_rate>>)
          /\ Requested(s, "set_min_bandwidth", i, min_rate)
    /\ UNCHANGED established

SetDelayAny ==
  \E i \in Primaries, delay \in AnyDelays :
    /\ ncalls < MaxRangeCalls
    /\ LET s == set_delay(Call(Cur, 0), i, delay)
       IN /\ Becomes(s, "set_delay", <<i, delay>>)
          /\ Requested(s, "set_delay", i, delay)
    /\ UNCHANGED established

NextRange == SetMinBandwidthAny \/ SetDelayAny

SpecRange == InitShape /\ [][NextRange]_vars

OutOfRange(op, value) ==
  \/ op = "set_min_bandwidth" /\ value <= 0
  \/ op = "set_delay" /\ value < 0

\* C12: a shaping call with an out-of-range value (set_min_bandwidth with a
\* rate <= 0, set_delay with a latency < 0) fails with InvalidParameter,
\* issues no engine command and leaves the Interfaces and the engine as they
\* were.
OutOfRangeRefused ==
  [][ShapingCall' /\ OutOfRange(result'.op, result'.args[2]) =>
       /\ result'.err = "InvalidParameter"
       /\ result'.cmds = <<>>
       /\ interfaces' = interfaces
       /\ engine' = engine]_vars

-----------------------------------------------------------------------------
(* Identifiers: Namespaces of either kind, links and first shaping calls,  *)
(* from the empty program, with engine failures                            *)

NsNames == {"", "n"}

CreateNamespace ==
  \E ns_name \in NsNames, f \in Fuses(1) :
    /\ ncalls < MaxIdCalls
    /\ Becomes(Namespace(Call(Cur, f), ns_name), "Namespace", <<ns_name>>)
    /\ UNCHANGED <<established, requested>>

ConnectAuto ==
  \E a \in DOMAIN namespaces, b \in DOMAIN namespaces, f \in Fuses(5) :
    /\ ncalls < MaxIdCalls
    /\ LET s == connect(Call(Cur, f), a, b, "", "")
       IN /\ Becomes(s, "connect", <<a, b, "", "">>)
          /\ established' = IF Raised(s) THEN established
                            ELSE Append(established, <<a, b>>)
    /\ UNCHANGED requested

\* the first shaping call on an Interface a connect made
ShapeFirst ==
  \E i \in DOMAIN interfaces, f \in Fuses(6) :
    /\ ncalls < MaxIdCalls
    /\ interfaces[i].pair # None
    /\ ~interfaces[i].mirred_to_ifb
    /\ \/ Becomes(set_min_bandwidth(Call(Cur, f), i, 5), "set_min_bandwidth", <<i, 5>>)
       \/ Becomes(set_delay(Call(Cur, f), i, 20), "set_delay", <<i, 20>>)
    /\ UNCHANGED <<established, requested>>

NextIds == CreateNamespace \/ ConnectAuto \/ ShapeFirst

SpecIds == Init /\ [][NextIds]_vars

\* the identifiers the generator has handed out while its counter went
\* from lo to hi
HandedOut(lo, hi) == {ToString(k) : k \in lo .. hi - 1}

NamedNss(nss) == {n \in DOMAIN nss : nss[n].id # DefaultId}

\* the identifiers held by the Namespaces nss and the Interfaces ifs
IdsOf(nss, ifs) ==
  {nss[n].id : n \in NamedNss(nss)} \cup {ifs[x].id : x \in DOMAIN ifs}

\* no two of the objects share an identifier
Distinct(nss, ifs) ==
  Cardinality(IdsOf(nss, ifs)) = Cardinality(NamedNss(nss)) + Len(ifs)

\* the identifiers of the Namespaces a call tried to create
CreatedIds(cmds) == {cmds[k][2] : k \in {j \in DOMAIN cmds : cmds[j][1] = "create_ns"}}

\* C14: after every call the identifiers of the non-default Namespaces, of
\* the Interfaces and of the IFB mirrors (Interfaces themselves) are
\* pairwise distinct and were all handed out by the generator; and the
\* identifiers a call gives to new objects, or to a Namespace it fails to
\* create, are ones handed out during that call, never before it.
IdentifiersDistinct ==
  [][ /\ Distinct(namespaces', interfaces')
      /\ IdsOf(namespaces', interfaces') \subseteq HandedOut(0, idgen')
      /\ idgen' >= idgen
      /\ (IdsOf(namespaces', interfaces') \ IdsOf(namespaces, interfaces))
           \cup CreatedIds(result'.cmds) \subseteq HandedOut(idgen, idgen')
      /\ IdsOf(namespaces, interfaces) \subseteq IdsOf(namespaces', interfaces') ]_vars

\* two named Namespaces, a link between them and the IFB mirror of one of
\* its Interfaces
IdentifiersDistinctWitness ==
  /\ Cardinality(NamedNss(namespaces)) >= 2
  /\ \E i \in Ifs :
       /\ interfaces[i].ifb # None
       /\ interfaces[i].pair # None
       /\ interfaces[i].namespace # interfaces[interfaces[i].pair].namespace
  /\ result.err = ""

NamespaceCalled(ns_name) == result'.op = "Namespace" /\ result'.args = <<ns_name>>

\* C17: creating a Namespace with an empty name takes no identifier and
\* issues no engine command, and the Namespace has the id 'default';
\* creating one with a non-empty name takes one identifier and issues one
\* create_ns with it, and the Namespace, if the engine accepts, has that id;
\* in both cases the new Namespace holds no Interface.
NamespaceCreation ==
  [][\A ns_name \in NsNames :
       NamespaceCalled(ns_name) =>
         /\ ns_name = "" =>
              /\ idgen' = idgen
              /\ result'.cmds = <<>>
              /\ result'.err = ""
              /\ engine' = engine
              /\ namespaces' = Append(namespaces, [id |-> "default", name |-> "",
                                                   interface_list |-> <<>>])
         /\ ns_name # "" =>
              /\ idgen' = idgen + 1
              /\ result'.cmds = << <<"create_ns", ToString(idgen)>> >>
              /\ result'.err = "" <=> ~result'.injected
              /\ result'.err = "" =>
                   /\ namespaces' = Append(namespaces,
                                           [id |-> ToString(idgen), name |-> ns_name,
                                            interface_list |-> <<>>])
                   /\ engine'.netns = engine.netns \cup {ToString(idgen)}
              /\ result'.err # "" => namespaces' = namespaces /\ engine' = engine
         /\ result'.err = "" => result'.ret = Len(namespaces')
         /\ interfaces' = interfaces]_vars

\* a named Namespace created after a default one and a linked pair
NamespaceCreationWitness ==
  /\ result.op = "Namespace" /\ result.args = <<"n">> /\ result.err = ""
  /\ \E n \in Nss : namespaces[n].id = "default"
  /\ Len(namespaces) >= 3
  /\ namespaces[Len(namespaces)].id # "default"

\* the commands of a connect of namespaces a and b that made Interfaces x, y
ConnectCommands(a, b, x, y) ==
  << <<"create_veth", interfaces[x].id, interfaces[y].id>>,
     <<"add_int_to_ns", namespaces[a].id, interfaces[x].id>>,
     <<"add_int_to_ns", namespaces[b].id, interfaces[y].id>>,
     <<"set_interface_mode", namespaces[a].id, interfaces[x].id, "up">>,
     <<"set_interface_mode", namespaces[b].id, interfaces[y].id, "up">> >>

IsPrefix(p, q) == Len(p) <= Len(q) /\ \A k \in DOMAIN p : p[k] = q[k]

\* C16: a connect(nsA, nsB) that returns has issued, in this order,
\* create_veth for its two Interfaces, add_int_to_ns of the first into nsA,
\* of the second into nsB, set_interface_mode up for the first, then for the
\* second; a connect that fails has issued a prefix of that sequence, so no
\* Interface is brought up before it is moved and none is moved before the
\* link exists.
ConnectCommandOrder ==
  result.op = "connect" =>
    LET a == result.args[1]
        b == result.args[2]
        x == Len(interfaces) - 1
        y == Len(interfaces)
    IN /\ IsPrefix(result.cmds, ConnectCommands(a, b, x, y))
       /\ result.err = "" =>
            /\ result.ret = <<x, y>>
            /\ result.cmds = ConnectCommands(a, b, x, y)

\* a second link between two distinct named Namespaces
ConnectCommandOrderWitness ==
  /\ result.op = "connect" /\ result.err = ""
  /\ result.args[1] # result.args[2]
  /\ Len(result.cmds) = 5
  /\ Len(established) = 2
  /\ established[1] = <<result.args[2], result.args[1]>>

-----------------------------------------------------------------------------
(* Ownership: connect, the Interface constructor and add_interface called  *)
(* directly, on two named namespaces with one link and a default namespace *)

ConnectObj ==
  \E a \in DOMAIN namespaces, b \in DOMAIN namespaces :
    /\ ncalls < MaxObjectCalls
    /\ LET s == connect(Call(Cur, 0), a, b, "", "")
       IN /\ Becomes(s, "connect", <<a, b, "", "">>)
          /\ established' = IF Raised(s) THEN established
                            ELSE Append(established, <<a, b>>)
    /\ UNCHANGED requested

AddInterface ==
  \E n \in DOMAIN namespaces, i \in DOMAIN interfaces, f \in Fuses(1) :
    /\ ncalls < MaxObjectCalls
    /\ Becomes(add_interface(Call(Cur, f), n, i), "add_interface", <<n, i>>)
    /\ UNCHANGED <<established, requested>>

NextOwn == ConnectObj \/ NewInterface \/ AddInterface

SpecOwn == InitObj /\ [][NextOwn]_vars

\* the places Interface x takes in the Namespaces' interface lists
Holders(nss, x) ==
  {p \in UNION {{<<n, k>> : k \in DOMAIN nss[n].interface_list} : n \in DOMAIN nss} :
     nss[p[1]].interface_list[p[2]] = x}

\* each Interface is held at most once, by the Namespace it refers to
OwnedOnce(nss, ifs) ==
  \A x \in DOMAIN ifs :
    /\ Cardinality(Holders(nss, x)) <= 1
    /\ \A p \in Holders(nss, x) : ifs[x].namespace = p[1]

\* C15 as stated: after any sequence of connect and add_interface calls each
\* Interface appears at most once across the Namespaces' interface lists,
\* and every Interface in a list refers to the Namespace that holds it.
ExclusiveOwnership == OwnedOnce(namespaces, interfaces)

\* add_interface called on an Interface that a Namespace holds already
ReAdded ==
  /\ result'.op = "add_interface"
  /\ Holders(namespaces, result'.args[2]) # {}

\* C15 (amended): connect, and add_interface of an Interface that no
\* Namespace holds yet, keep each Interface held at most once, by the
\* Namespace it refers to, whether or not the engine accepts the move; the
\* Interface added is then held by the Namespace it was added to.
OwnershipKept ==
  [][(OwnedOnce(namespaces, interfaces) /\ ~ReAdded) =>
       /\ OwnedOnce(namespaces', interfaces')
       /\ result'.op = "add_interface" =>
            /\ Holders(namespaces', result'.args[2]) =
                 {<<result'.args[1], Len(namespaces'[result'.args[1]].interface_list)>>}
            /\ interfaces'[result'.args[2]].namespace = result'.args[1]]_vars

\* an Interface made for one Namespace and added to another, besides a
\* second link, every Interface held once
OwnershipKeptWitness ==
  /\ result.op = "add_interface" /\ result.err = ""
  /\ OwnedOnce(namespaces, interfaces)
  /\ interfaces[result.args[2]].pair = None
  /\ Len(established) = 2

-----------------------------------------------------------------------------
(* Routes: add_route called on two named namespaces with one link and a    *)
(* default namespace, with engine failures                                 *)

NextHopArgs == {Str("10.0.1.2/24"), Str("10.0.1")}

AddRoute ==
  \E n \in DOMAIN namespaces, dest_addr \in AddressArgs,
     next_hop_addr \in NextHopArgs, via_interface \in DOMAIN interfaces,
     f \in Fuses(1) :
    /\ ncalls < MaxRouteCalls
    /\ Becomes(add_route(Call(Cur, f), n, dest_addr, next_hop_addr, via_interface),
               "add_route", <<n, dest_addr, next_hop_addr, via_interface>>)
    /\ UNCHANGED <<established, requested>>

NextRoute == AddRoute

SpecRoute == InitObj /\ [][NextRoute]_vars

\* C18: add_route with a malformed destination or next-hop string fails
\* with InvalidAddressFormat, issues no engine command and installs no
\* route; with two well-formed addresses it issues one engine add_route for
\* this Namespace's id, the two addresses without their subnets and the
\* given Interface's id, whichever Namespace the Interface belongs to.
AddRouteContract ==
  [][result'.op = "add_route" =>
       LET n == result'.args[1]
           dest_addr == result'.args[2]
           next_hop_addr == result'.args[3]
           via_interface == result'.args[4]
           route == <<namespaces[n].id, get_addr_without_subnet(dest_addr),
                      get_addr_without_subnet(next_hop_addr),
                      interfaces[via_interface].id>>
       IN /\ ~(WellFormed(dest_addr) /\ WellFormed(next_hop_addr)) =>
               /\ result'.err = "InvalidAddressFormat"
               /\ result'.cmds = <<>>
               /\ engine' = engine
          /\ WellFormed(dest_addr) /\ WellFormed(next_hop_addr) =>
               /\ result'.cmds = << <<"add_route">> \o route >>
               /\ result'.err = "" <=> ~result'.injected
               /\ result'.err = "" => engine'.route = engine.route \cup {route}
               /\ result'.err # "" => engine' = engine
          /\ namespaces' = namespaces /\ interfaces' = interfaces]_vars

\* a route installed for a Namespace through an Interface of another
\* Namespace, after a call that failed
AddRouteContractWitness ==
  /\ result.op = "add_route" /\ result.err = ""
  /\ interfaces[result.args[4]].namespace # result.args[1]
  /\ result.args[2].type = "str"
  /\ failures = 1
  /\ engine.route # {}

-----------------------------------------------------------------------------
(* The pipeline an Interface records, over the runs of SpecShape           *)

\* C20: once a shaping call on an Interface has returned, and after any
\* further shaping calls, the Interface's qdisc_list, class_list and
\* filter_list hold the canonical stage and nothing else: root discipline
\* 1:, class 1:1 under 1:, delay discipline 11: under 1:1, and one redirect
\* filter.
RecordedPipelineCanonical ==
  \A i \in Primaries :
    requested[i].calls # <<>> =>
      /\ interfaces[i].qdisc_list =
           << [qdisc |-> "htb", parent |-> "root", handle |-> "1:"],
              [qdisc |-> "netem", parent |-> "1:1", handle |-> "11:"] >>
      /\ interfaces[i].class_list =
           << [qdisc |-> "htb", parent |-> "1:", classid |-> "1:1"] >>
      /\ Len(interfaces[i].filter_list) = 1

-----------------------------------------------------------------------------
(* Shaping calls on the two Interfaces of one link run by two threads, one *)
(* per Interface, that interleave statement by statement.  A thread is at  *)
(* a program point of set_min_bandwidth / set_delay and of the             *)
(* _mirred_to_ifb and _create_ifb they call:                               *)
(*   test    if self.mirred_to_ifb is False                                *)
(*   flag    self.mirred_to_ifb = True                                     *)
(*   ifb     self.ifb = Interface('ifb', self.namespace)                   *)
(*   setup   engine.setup_ifb(...)                                         *)
(*   root    self.add_qdisc('htb', 'root', '1:', default 1)                *)
(*   class   self.add_class('htb', '1:', '1:1', rate 10mbit)               *)
(*   netem   self.add_qdisc('netem', '1:1', '11:')                         *)
(*   filter  engine.add_filter(...)                                        *)
(*   change  engine.exec_subprocess(tc class change / tc qdisc change)     *)
(* Interface.__init__, ID_GEN.get_id() included, is one step.  Here        *)
(* requested[i] is the thread of Interface i: the calls it began, its      *)
(* program point, the call it runs, the commands it issued, and whether it *)
(* took a step while the other thread was inside a call.                   *)

\* the statement at program point pc of a shaping call on Interface i that
\* sets the flag of the Interface's pair as well
Statement_flagspair(s, i, pc, op, value) ==
  CASE pc = "flag" -> [s EXCEPT !.ifs[i].mirred_to_ifb = TRUE,
                                !.ifs[s.ifs[i].pair].mirred_to_ifb = TRUE]
    [] pc = "ifb" -> LET s1 == Interface(s, "ifb", s.ifs[i].namespace)
                     IN [s1 EXCEPT !.ifs[i].ifb = s1.ret]
    [] pc = "setup" -> setup_ifb(s, NsId(s, s.ifs[i].ifb), s.ifs[s.ifs[i].ifb].id)
    [] pc = "root" -> add_qdisc(s, i, "htb", "root", "1:", "default 1")
    [] pc = "class" -> add_class(s, i, "htb", "1:", "1:1", "rate 10mbit")
    [] pc = "netem" -> add_qdisc(s, i, "netem", "1:1", "11:", "")
    [] pc = "filter" -> engine_add_filter(s, NsId(s, i), s.ifs[i].id, "ip", "1", "u32",
                                          "1:", s.ifs[s.ifs[i].ifb].id)
    [] pc = "change" ->
         IF op = "set_min_bandwidth"
         THEN tc_class_change(s, NsId(s, i), s.ifs[i].id, "1:", "1:1",
                              "rate " \o ToString(value))
         ELSE tc_qdisc_change(s, NsId(s, i), s.ifs[i].id, "1:1", "11:",
                              "delay " \o ToString(value))
    [] OTHER -> s

\* the statement at program point pc of a shaping call on Interface i
Statement(s, i, pc, op, value) ==
  CASE pc = "flag" -> [s EXCEPT !.ifs[i].mirred_to_ifb = TRUE]
    [] pc = "ifb" -> LET s1 == Interface(s, "ifb", s.ifs[i].namespace)
                     IN [s1 EXCEPT !.ifs[i].ifb = s1.ret]
    [] pc = "setup" -> setup_ifb(s, NsId(s, s.ifs[i].ifb), s.ifs[s.ifs[i].ifb].id)
    [] pc = "root" -> add_qdisc(s, i, "htb", "root", "1:", "default 1")
    [] pc = "class" -> add_class(s, i, "htb", "1:", "1:1", "rate 10mbit")
    [] pc = "netem" -> add_qdisc(s, i, "netem", "1:1", "11:", "")
    [] pc = "filter" -> engine_add_filter(s, NsId(s, i), s.ifs[i].id, "ip", "1", "u32",
                                          "1:", s.ifs[s.ifs[i].ifb].id)
    [] pc = "change" ->
         IF op = "set_min_bandwidth"
         THEN tc_class_change(s, NsId(s, i), s.ifs[i].id, "1:", "1:1",
                              "rate " \o ToString(value))
         ELSE tc_qdisc_change(s, NsId(s, i), s.ifs[i].id, "1:1", "11:",
                              "delay " \o ToString(value))
    [] OTHER -> s

\* the program point that follows pc; s is the state the statement ran in
After(s, i, pc) ==
  CASE pc = "test" -> IF s.ifs[i].mirred_to_ifb THEN "change" ELSE "flag"
    [] pc = "flag" -> "ifb"
    [] pc = "ifb" -> "setup"
    [] pc = "setup" -> "root"
    [] pc = "root" -> "class"
    [] pc = "class" -> "netem"
    [] pc = "netem" -> "filter"
    [] pc = "filter" -> "change"
    [] OTHER -> "idle"

Idle ==
  [calls |-> <<>>, injected |-> FALSE, failed |-> FALSE, pc |-> "idle",
   op |-> "", value |-> 0, cmds |-> <<>>, overlapped |-> FALSE]

InitThreads ==
  /\ idgen = Topology.idgen
  /\ namespaces = Topology.ns
  /\ interfaces = Topology.ifs
  /\ engine = Topology.eng
  /\ result = NoResult
  /\ established = << <<1, 2>> >>
  /\ requested = [i \in {Topology.ret[1], Topology.ret[2]} |-> Idle]
  /\ failures = 0
  /\ ncalls = 0
  /\ experiment = NoExperiment

\* a thread enters set_min_bandwidth or set_delay
Begin ==
  \E i \in Primaries, op \in {"set_min_bandwidth", "set_delay"} :
    \E value \in IF op = "set_min_bandwidth" THEN Rates ELSE Delays :
      /\ ncalls < MaxThreadCalls
      /\ requested[i].pc = "idle"
      /\ requested' = [requested EXCEPT ![i].pc = "test", ![i].op = op,
                                        ![i].value = value,
                                        ![i].calls = Append(@, <<op, value>>)]
      /\ ncalls' = ncalls + 1
      /\ UNCHANGED <<idgen, namespaces, interfaces, engine, result, established,
                     failures, experiment>>

\* a thread runs the statement it is at; an exception ends its call
Step ==
  \E i \in Primaries :
    /\ requested[i].pc # "idle"
    /\ LET t == requested[i]
           s == Statement(Call(Cur, 0), i, t.pc, t.op, t.value)
       IN /\ idgen' = s.idgen
          /\ namespaces' = s.ns
          /\ interfaces' = s.ifs
          /\ engine' = s.eng
          /\ requested' =
               [requested EXCEPT
                  ![i].pc = IF Raised(s) THEN "idle" ELSE After(Cur, i, t.pc),
                  ![i].cmds = @ \o s.cmds,
                  ![i].failed = @ \/ Raised(s),
                  ![i].overlapped =
                    @ \/ \E j \in Primaries : j # i /\ requested[j].pc # "idle"]
          /\ failures' = IF Raised(s) THEN failures + 1 ELSE failures
    /\ UNCHANGED <<result, established, ncalls, experiment>>

NextThreads == Begin \/ Step

SpecThreads == InitThreads /\ [][NextThreads]_vars

\* the calls of one Interface executed alone, one after the other, on the
\* link as it was made: the state they leave and the commands they issue
RECURSIVE Alone(_, _)
Alone(i, calls) ==
  IF calls = <<>> THEN [st |-> Call(Topology, 0), cmds |-> <<>>]
  ELSE LET before == Alone(i, SubSeq(calls, 1, Len(calls) - 1))
           c == calls[Len(calls)]
           s == IF c[1] = "set_min_bandwidth"
                THEN set_min_bandwidth(Call(before.st, 0), i, c[2])
                ELSE set_delay(Call(before.st, 0), i, c[2])
       IN [st |-> s, cmds |-> before.cmds \o s.cmds]

MirrorId(ifs, i) == IF ifs[i].ifb = None THEN "" ELSE ifs[ifs[i].ifb].id

\* an identifier, the mirror's own being written "mirror" when anonymous
Named(id, mirror, anonymous) == IF anonymous /\ id = mirror THEN "mirror" ELSE id

CommandNamed(c, mirror, anonymous) ==
  CASE c[1] = "setup_ifb" -> [c EXCEPT ![3] = Named(@, mirror, anonymous)]
    [] c[1] = "add_filter" -> [c EXCEPT ![8] = Named(@, mirror, anonymous)]
    [] OTHER -> c

\* what there is of Interface i: its fields, its mirror, whether the engine
\* has set the mirror up, its pipeline nodes, and the commands issued for it
Shaped(ifs, eng, i, cmds, anonymous) ==
  LET mirror == MirrorId(ifs, i)
  IN [ fields |-> [ifs[i] EXCEPT !.ifb = (@ # None)],
       mirror |-> IF ifs[i].ifb = None THEN <<>>
                  ELSE << [ifs[ifs[i].ifb] EXCEPT !.id = Named(@, mirror, anonymous)] >>,
       set_up |-> mirror \in eng.ifb,
       nodes |-> {[n EXCEPT !.value = IF n.kind = "filter"
                                      THEN Named(@, mirror, anonymous) ELSE @] :
                    n \in {m \in eng.tc : m.dev = ifs[i].id}},
       cmds |-> [k \in DOMAIN cmds |-> CommandNamed(cmds[k], mirror, anonymous)] ]

\* thread i, when outside a call, has left Interface i as its calls alone
\* would have
AsAlone(req, ifs, eng, i, anonymous) ==
  req[i].pc = "idle" =>
    LET alone == Alone(i, req[i].calls)
    IN /\ ~req[i].failed
       /\ Shaped(ifs, eng, i, req[i].cmds, anonymous) =
            Shaped(alone.st.ifs, alone.st.eng, i, alone.cmds, anonymous)

\* C19 as stated: whenever the thread of an Interface is outside a call,
\* the Interface's flag, mirror, pipeline nodes and issued commands are
\* those its calls executed alone would have left.
InterleavedAsAlone ==
  \A i \in Primaries : AsAlone(requested, interfaces, engine, i, FALSE)

\* C19 (amended): the same up to the identifier of the Interface's own IFB
\* mirror, which depends on how many identifiers the other thread took
\* first; and a step of one thread leaves the other Interface, its mirror,
\* its pipeline nodes and its thread as they were, and the two Interfaces
\* never share a mirror.
InterleavedAsAloneUpToMirrorId ==
  [][ /\ \A i \in Primaries : AsAlone(requested', interfaces', engine', i, TRUE)
      /\ \A i, j \in Primaries :
           (i # j /\ requested'[i] # requested[i]) =>
             /\ requested'[j] = requested[j]
             /\ Shaped(interfaces', engine', j, requested'[j].cmds, FALSE) =
                  Shaped(interfaces, engine, j, requested[j].cmds, FALSE)
      /\ \A i, j \in Primaries :
           (i # j /\ interfaces'[i].ifb # None) =>
             interfaces'[i].ifb # interfaces'[j].ifb ]_vars

\* both threads are outside a call after each took steps while the other
\* was inside one; both Interfaces are shaped, one by two calls, and the
\* first Interface's mirror was made second
InterleavedAsAloneUpToMirrorIdWitness ==
  /\ \A i \in Primaries :
       /\ requested[i].pc = "idle"
       /\ requested[i].overlapped
       /\ requested[i].calls # <<>>
       /\ interfaces[i].ifb # None
  /\ ncalls = 3
  /\ \E i, j \in Primaries : i < j /\ interfaces[i].ifb > interfaces[j].ifb

-----------------------------------------------------------------------------
(* connect with the default namespace, over the runs of SpecIds            *)

\* what number_of_connections(a, b) returns for the Namespaces nss and the
\* Interfaces ifs
Connections(nss, ifs, a, b) ==
  number_of_connections([Empty EXCEPT !.ns = nss, !.ifs = ifs], a, b)

\* C21: a connect in which either Namespace is the default one, with no
\* engine failure, raises NamespaceNotAssigned at its set_mode calls: by
\* then it has created and paired two Interfaces, created the link, and
\* added each Interface to its Namespace (with the engine command for it);
\* the first Interface has been brought up if its Namespace is not the
\* default one.  The default Namespace now holds an Interface, and
\* number_of_connections for the pair has grown by one (by two when both
\* ends are the same Namespace).
DefaultConnectFailsLate ==
  [][( /\ result'.op = "connect"
       /\ ~result'.injected
       /\ \/ namespaces[result'.args[1]].id = DefaultId
          \/ namespaces[result'.args[2]].id = DefaultId ) =>
       LET a == result'.args[1]
           b == result'.args[2]
           x == Len(interfaces) + 1
           y == Len(interfaces) + 2
           commands ==
             << <<"create_veth", ToString(idgen), ToString(idgen + 1)>>,
                <<"add_int_to_ns", namespaces[a].id, ToString(idgen)>>,
                <<"add_int_to_ns", namespaces[b].id, ToString(idgen + 1)>>,
                <<"set_interface_mode", namespaces[a].id, ToString(idgen), "up">> >>
       IN /\ result'.err = "NamespaceNotAssigned"
          /\ Len(interfaces') = Len(interfaces) + 2
          /\ interfaces'[x].id = ToString(idgen) /\ interfaces'[y].id = ToString(idgen + 1)
          /\ interfaces'[x].pair = y /\ interfaces'[y].pair = x
          /\ interfaces'[x].namespace = a /\ interfaces'[y].namespace = b
          /\ <<ToString(idgen), ToString(idgen + 1)>> \in engine'.veth
          /\ namespaces' =
               [[namespaces EXCEPT ![a].interface_list = Append(@, x)]
                  EXCEPT ![b].interface_list = Append(@, y)]
          /\ result'.cmds =
               SubSeq(commands, 1, IF namespaces[a].id = DefaultId THEN 3 ELSE 4)
          /\ Connections(namespaces, interfaces, a, b).err = ""
          /\ Connections(namespaces', interfaces', a, b).err = ""
          /\ Connections(namespaces', interfaces', a, b).ret =
               Connections(namespaces, interfaces, a, b).ret
                 + (IF a = b THEN 2 ELSE 1)]_vars

\* a second connect of a named Namespace with the default one has failed:
\* the default Namespace holds two Interfaces and number_of_connections
\* counts two links, none of them established
DefaultConnectFailsLateWitness ==
  /\ result.op = "connect" /\ result.err = "NamespaceNotAssigned"
  /\ namespaces[result.args[1]].id # DefaultId
  /\ namespaces[result.args[2]].id = DefaultId
  /\ Len(result.cmds) = 4
  /\ Len(namespaces[result.args[2]].interface_list) = 2
  /\ Connections(namespaces, interfaces, result.args[1], result.args[2]).ret = 2
  /\ established = <<>>

-----------------------------------------------------------------------------
(* Shaping next to the low-level pipeline calls and set_qdisc: the linked  *)
(* topology with one Interface addressed, then set_min_bandwidth,          *)
(* set_delay, set_qdisc, add_qdisc and add_class on the two Interfaces the *)
(* caller holds.                                                           *)

\* (a, b) = connect(n0, r0); a.set_address('10.0.1.1/24')
Addressed ==
  set_address(Call(Topology, 0), Topology.ret[1], Str("10.0.1.1/24"))

InitQdisc ==
  /\ idgen = Addressed.idgen
  /\ namespaces = Addressed.ns
  /\ interfaces = Addressed.ifs
  /\ engine = Addressed.eng
  /\ result = NoResult
  /\ established = << <<1, 2>> >>
  /\ requested = [i \in {Topology.ret[1], Topology.ret[2]} |->
                    [calls |-> <<>>, injected |-> FALSE, failed |-> FALSE]]
  /\ failures = 0
  /\ ncalls = 0
  /\ experiment = NoExperiment

\* the disciplines and classes the caller adds by hand: add_qdisc('pfifo',
\* 'root', h) and add_class('htb', '1:', '1:2')
LowQdiscs == {<<"pfifo", "root", "1:">>, <<"pfifo", "root", "2:">>}

LowClasses == {<<"htb", "1:", "1:2">>}

ShapeBandwidth ==
  \E i \in Primaries, f \in Fuses(6) :
    /\ ncalls < MaxQdiscCalls
    /\ LET s == set_min_bandwidth(Call(Cur, f), i, 5)
       IN /\ Becomes(s, "set_min_bandwidth", <<i, 5>>)
          /\ Requested(s, "set_min_bandwidth", i, 5)
    /\ UNCHANGED established

ShapeDelay ==
  \E i \in Primaries, f \in Fuses(6) :
    /\ ncalls < MaxQdiscCalls
    /\ LET s == set_delay(Call(Cur, f), i, 20)
       IN /\ Becomes(s, "set_delay", <<i, 20>>)
          /\ Requested(s, "set_delay", i, 20)
    /\ UNCHANGED established

SetQdisc ==
  \E i \in Primaries, qdisc \in {"pfifo"}, f \in Fuses(1) :
    /\ ncalls < MaxQdiscCalls
    /\ LET s == set_qdisc(Call(Cur, f), i, qdisc)
       IN /\ Becomes(s, "set_qdisc", <<i, qdisc>>)
          /\ Requested(s, "set_qdisc", i, qdisc)
    /\ UNCHANGED established

AddQdisc ==
  \E i \in Primaries, q \in LowQdiscs, f \in Fuses(1) :
    /\ ncalls < MaxQdiscCalls
    /\ LET s == add_qdisc(Call(Cur, f), i, q[1], q[2], q[3], "")
       IN /\ Becomes(s, "add_qdisc", <<i, q[1], q[2], q[3]>>)
          /\ Requested(s, "add_qdisc", i, q[3])
    /\ UNCHANGED established

AddClass ==
  \E i \in Primaries, c \in LowClasses, f \in Fuses(1) :
    /\ ncalls < MaxQdiscCalls
    /\ LET s == add_class(Call(Cur, f), i, c[1], c[2], c[3], "")
       IN /\ Becomes(s, "add_class", <<i, c[1], c[2], c[3]>>)
          /\ Requested(s, "add_class", i, c[3])
    /\ UNCHANGED established

NextQdisc == ShapeBandwidth \/ ShapeDelay \/ SetQdisc \/ AddQdisc \/ AddClass

SpecQdisc == InitQdisc /\ [][NextQdisc]_vars

\* C22: a set_min_bandwidth or set_delay call on an Interface, whether it
\* returns or raises, leaves every Namespace (its owned Interfaces
\* included) and every other Interface as they were, and the pair, address
\* and namespace of the shaped Interface too; an Interface it creates is
\* the mirror 'ifb' of the shaped Interface: it has the primary's
\* Namespace, no pair, and is in no Namespace's owned collection.
\* number_of_connections returns the same for every two Namespaces.
ShapingFrame ==
  [][result'.op \in {"set_min_bandwidth", "set_delay"} =>
       LET i == result'.args[1]
       IN /\ namespaces' = namespaces
          /\ \A j \in DOMAIN interfaces :
               /\ j \in DOMAIN interfaces'
               /\ j # i => interfaces'[j] = interfaces[j]
               /\ interfaces'[j].pair = interfaces[j].pair
               /\ interfaces'[j].address = interfaces[j].address
               /\ interfaces'[j].namespace = interfaces[j].namespace
          /\ \A j \in DOMAIN interfaces' \ DOMAIN interfaces :
               /\ interfaces'[i].ifb = j
               /\ interfaces'[j].name = "ifb"
               /\ interfaces'[j].namespace = interfaces[i].namespace
               /\ interfaces'[j].pair = None
               /\ \A n \in DOMAIN namespaces' :
                    \A k \in DOMAIN namespaces'[n].interface_list :
                      namespaces'[n].interface_list[k] # j
          /\ \A a, b \in DOMAIN namespaces :
               /\ Connections(namespaces', interfaces', a, b).ret =
                    Connections(namespaces, interfaces, a, b).ret
               /\ Connections(namespaces', interfaces', a, b).err =
                    Connections(namespaces, interfaces, a, b).err]_vars

\* the addressed Interface has been shaped: it has its mirror, its address
\* and its pair, and the link is still counted once
ShapingFrameWitness ==
  /\ result.op \in {"set_min_bandwidth", "set_delay"} /\ result.err = ""
  /\ interfaces[result.args[1]].ifb # None
  /\ interfaces[result.args[1]].address # NoAddress
  /\ interfaces[result.args[1]].pair # None
  /\ interfaces[interfaces[result.args[1]].ifb].namespace =
       interfaces[result.args[1]].namespace
  /\ Connections(namespaces, interfaces, 1, 2).ret = 1

\* the low-level calls made on Interface j: add_qdisc and add_class by the
\* caller on a primary, add_qdisc by set_qdisc on a mirror
LowLevelCalled(j) ==
  \/ /\ j \in Primaries
     /\ \E k \in DOMAIN requested[j].calls :
          requested[j].calls[k][1] \in {"add_qdisc", "add_class"}
  \/ \E i \in Primaries :
       /\ interfaces[i].ifb = j
       /\ \E k \in DOMAIN requested[i].calls :
            requested[i].calls[k][1] = "set_qdisc"

\* C23: between calls, an Interface whose mirrored flag is set has a
\* mirror, and an Interface whose flag is not set has none and, unless a
\* low-level add_qdisc or add_class was called on it, records no
\* discipline and no class.
FlagMatchesMirror ==
  \A j \in DOMAIN interfaces :
    /\ interfaces[j].mirred_to_ifb => interfaces[j].ifb # None
    /\ ~interfaces[j].mirred_to_ifb =>
         /\ interfaces[j].ifb = None
         /\ \/ LowLevelCalled(j)
            \/ interfaces[j].qdisc_list = <<>> /\ interfaces[j].class_list = <<>>

\* an engine command has failed in the middle of the transition: that
\* Interface has the flag and a mirror, while the other Interface has
\* neither and, a low-level call apart, records nothing
FlagMatchesMirrorWitness ==
  /\ result.op \in {"set_min_bandwidth", "set_delay"}
  /\ result.injected
  /\ Len(result.cmds) \in 1 .. 5
  /\ result.cmds[1][1] = "setup_ifb"
  /\ interfaces[result.args[1]].mirred_to_ifb
  /\ interfaces[result.args[1]].ifb # None
  /\ \E j \in Primaries :
       /\ ~interfaces[j].mirred_to_ifb
       /\ interfaces[j].qdisc_list # <<>>

\* C24: set_qdisc on an Interface whose mirrored flag is not set returns
\* having run the transition (flag, mirror, canonical nodes) and recorded
\* the discipline on the mirror; on a mirrored Interface it keeps the
\* mirror, creates no Interface, records one more discipline on the mirror
\* and leaves the primary's recorded pipeline as it was.
SetQdiscMirrorsFirst ==
  [][(result'.op = "set_qdisc" /\ ~result'.injected) =>
       LET i == result'.args[1]
           m == interfaces'[i].ifb
       IN IF ~interfaces[i].mirred_to_ifb
          THEN /\ result'.err = ""
               /\ interfaces'[i].mirred_to_ifb
               /\ m # None
               /\ Len(interfaces') = Len(interfaces) + 1
               /\ \E n \in engine'.tc :
                    n.dev = interfaces[i].id /\ n.kind = "filter"
                      /\ n.value = interfaces'[m].id
               /\ Len(interfaces'[m].qdisc_list) = 1
          ELSE /\ m = interfaces[i].ifb
               /\ Len(interfaces') = Len(interfaces)
               /\ Len(interfaces'[m].qdisc_list) =
                    Len(interfaces[m].qdisc_list) + 1
               /\ interfaces'[i].qdisc_list = interfaces[i].qdisc_list
               /\ interfaces'[i].class_list = interfaces[i].class_list]_vars

\* what the code does instead: set_qdisc on an Interface without a mirror
\* raises AttributeError and changes nothing
SetQdiscUnshapedRaises ==
  [][(result'.op = "set_qdisc" /\ interfaces[result'.args[1]].ifb = None) =>
       /\ result'.err = "AttributeError"
       /\ result'.cmds = <<>>
       /\ interfaces' = interfaces /\ engine' = engine]_vars

-----------------------------------------------------------------------------
(* experiment/run_exp.py: run_experiment and its worker processes.  An     *)
(* experiment state e holds the inputs (flows, qdisc_stats, the installed  *)
(* tools), the runner objects and Processes created so far, each Process   *)
(* with its target and its status, and the locals of run_experiment.  A    *)
(* runner or a Process is named by its position in e.objects or            *)
(* e.processes.  Start and stop times are left out: they decide when a     *)
(* runner acts, not which runners and workers exist.                       *)

tools == {"netperf", "ss", "tc", "iperf3", "ping"}

\* the (src_ns, dst_addr) of a flow
Keys == {"n0 10.0.1.2", "n1 10.0.1.1"}

\* the flows of an experiment: a TCP flow, a TCP flow of two streams
\* between the other two ends, a UDP flow
FlowArgs ==
  { [protocol |-> "TCP", key |-> "n0 10.0.1.2", n_flows |-> 1],
    [protocol |-> "TCP", key |-> "n1 10.0.1.1", n_flows |-> 2],
    [protocol |-> "UDP", key |-> "n0 10.0.1.2", n_flows |-> 1] }

\* the sequences over S of length at most n
RECURSIVE SeqsUpTo(_, _)
SeqsUpTo(S, n) ==
  IF n = 0 THEN {<<>>}
  ELSE LET shorter == SeqsUpTo(S, n - 1)
       IN shorter \cup {Append(q, x) : q \in {r \in shorter : Len(r) = n - 1}, x \in S}

\* get_dependency_status: int(is_dependency_installed(tool)) for every tool
get_dependency_status(installed) ==
  [t \in tools |-> IF installed[t] THEN 1 ELSE 0]

\* a dict that gets a key: a key it has keeps its position
WithKey(schedules, key) ==
  IF \E k \in DOMAIN schedules : schedules[k] = key THEN schedules
  ELSE Append(schedules, key)

\* what a setup function returns next to the state: the updated dependency,
\* the runners and the workers
Returned(e, dependency, runners, workers) ==
  [e |-> e, dependency |-> dependency, runners |-> runners, workers |-> workers]

\* for item in items: runner = Class(item); runners.append(runner);
\* workers.append(Process(target=runner.method)).  The Processes are
\* created, not started.
runners_for(e, dependency, class, method, items) ==
  Returned(
    [e EXCEPT
       !.objects = @ \o [k \in DOMAIN items |-> [class |-> class, of |-> items[k]]],
       !.processes = @ \o [k \in DOMAIN items |->
                             [target |-> Len(e.objects) + k, method |-> method,
                              status |-> "created"]]],
    dependency,
    [k \in DOMAIN items |-> Len(e.objects) + k],
    [k \in DOMAIN items |-> Len(e.processes) + k])

\* n_flows NetperfRunners and their workers; the flow's key enters
\* ss_schedules
setup_tcp_flows(e, dependency, flow) ==
  IF dependency = 0 THEN Returned(e, 2, <<>>, <<>>)
  ELSE IF dependency = 1
       THEN runners_for([e EXCEPT !.ss_schedules = WithKey(@, flow.key)], 1,
                        "NetperfRunner", "run",
                        [c \in 1 .. flow.n_flows |-> flow.key])
       ELSE Returned(e, dependency, <<>>, <<>>)

\* the iperf3 server is started on the destination; one IperfRunner and
\* one Process run the client for all n_flows streams
setup_udp_flows(e, dependency, flow) ==
  IF dependency = 0 THEN Returned(e, 2, <<>>, <<>>)
  ELSE IF dependency = 1
       THEN runners_for(e, 1, "IperfRunner", "run_client", <<flow.key>>)
       ELSE Returned(e, dependency, <<>>, <<>>)

setup_ss_runners(e, dependency, ss_schedules) ==
  IF dependency = 1
  THEN runners_for(e, dependency, "SsRunner", "run", ss_schedules)
  ELSE Returned(e, dependency, <<>>, <<>>)

setup_tc_runners(e, dependency, qdisc_stats) ==
  IF dependency = 1 /\ Len(qdisc_stats) > 0
  THEN runners_for(e, dependency, "TcRunner", "run", qdisc_stats)
  ELSE Returned(e, dependency, <<>>, <<>>)

setup_ping_runners(e, dependency, ping_schedules) ==
  IF dependency = 1
  THEN runners_for(e, dependency, "PingRunner", "run", ping_schedules)
  ELSE Returned(e, dependency, <<>>, <<>>)

\* one round of `for flow in exp.flows`, for the k-th flow
traffic_generation(e, k) ==
  LET flow == e.flows[k]
      tool == IF flow.protocol = "TCP" THEN "netperf" ELSE "iperf3"
      e1 == [e EXCEPT !.ping_schedules = WithKey(@, flow.key)]
      r == IF flow.protocol = "TCP"
           THEN setup_tcp_flows(e1, e.dependencies["netperf"], flow)
           ELSE setup_udp_flows(e1, e.dependencies["iperf3"], flow)
  IN [r.e EXCEPT !.dependencies[tool] = r.dependency,
                 !.exp_runners[tool] = @ \o r.runners,
                 !.exp_workers = @ \o r.workers]

\* `if dependencies['netperf'] == 1`: the SsRunners and the TcRunners, both
\* appended to exp_runners.ss
statistics_collection(e) ==
  LET ss == setup_ss_runners(e, e.dependencies["ss"], e.ss_schedules)
      e1 == [ss.e EXCEPT !.exp_workers = @ \o ss.workers,
                         !.exp_runners["ss"] = @ \o ss.runners]
      tc == setup_tc_runners(e1, e.dependencies["tc"], e.qdisc_stats)
  IN IF e.dependencies["netperf"] = 1
     THEN [tc.e EXCEPT !.exp_workers = @ \o tc.workers,
                       !.exp_runners["ss"] = @ \o tc.runners]
     ELSE e

\* the PingRunners, one for each (src_ns, dst_addr) of the flows
ping_collection(e) ==
  LET ping == setup_ping_runners(e, e.dependencies["ping"], e.ping_schedules)
  IN [ping.e EXCEPT !.exp_workers = @ \o ping.workers,
                    !.exp_runners["ping"] = @ \o ping.runners]

\* get_parser_workers: a Process(target=runner.parse) for each of the ss,
\* netperf, tc and ping runners, in that order
get_parser_workers(e, runners_list) ==
  LET runners == runners_list["ss"] \o runners_list["netperf"]
                   \o runners_list["tc"] \o runners_list["ping"]
  IN Returned(
       [e EXCEPT !.processes = @ \o [k \in DOMAIN runners |->
                                       [target |-> runners[k], method |-> "parse",
                                        status |-> "created"]]],
       0, <<>>, [k \in DOMAIN runners |-> Len(e.processes) + k])

\* get_plotter_workers: four Processes, not bound to a runner
get_plotter_workers(e) ==
  LET plotters == <<"plot_ss", "plot_netperf", "plot_tc", "plot_ping">>
  IN Returned(
       [e EXCEPT !.processes = @ \o [k \in DOMAIN plotters |->
                                       [target |-> None, method |-> plotters[k],
                                        status |-> "created"]]],
       0, <<>>, [k \in DOMAIN plotters |-> Len(e.processes) + k])

\* the main process enters run_workers(workers); `next` is the statement of
\* run_experiment that follows the call
run_workers(e, workers, next) ==
  [e EXCEPT !.workers = workers, !.k = 1, !.next = next,
            !.pc = IF workers = <<>> THEN next ELSE "start"]

\* run_workers that waits for each worker right after starting it
start_serial(e) ==
  [e EXCEPT !.processes[e.workers[e.k]].status = "started", !.pc = "join"]

\* one round of `for worker in workers: worker.start()`; after the last
\* one the main process goes on to the second loop
start(e) ==
  [e EXCEPT !.processes[e.workers[e.k]].status = "started",
            !.k = IF e.k = Len(e.workers) THEN 1 ELSE @ + 1,
            !.pc = IF e.k = Len(e.workers) THEN "join" ELSE "start"]

\* a join that does not wait
joined_always(e) == TRUE

\* worker.join() returns once the worker has terminated
joined(e) == e.processes[e.workers[e.k]].status = "terminated"

\* one round of `for worker in workers: worker.join()`; after the last one
\* run_workers returns
join(e) ==
  [e EXCEPT !.k = IF e.k = Len(e.workers) THEN 1 ELSE @ + 1,
            !.pc = IF e.k = Len(e.workers) THEN e.next ELSE "join"]

\* dump_json_ouputs
dump_json_ouputs(e) == [e EXCEPT !.events = Append(@, "dump")]

\* cleanup: the results are removed and the processes of every namespace
\* killed
cleanup(e) == [e EXCEPT !.events = Append(@, "cleanup")]

\* run_experiment(exp) has been called: its locals before the loop over
\* the flows
Experiment(flows, qdisc_stats, installed) ==
  [flows |-> flows, qdisc_stats |-> qdisc_stats, installed |-> installed,
   objects |-> <<>>, processes |-> <<>>,
   dependencies |-> get_dependency_status(installed),
   exp_runners |-> [t \in tools |-> <<>>], exp_workers |-> <<>>,
   ss_schedules |-> <<>>, ping_schedules |-> <<>>,
   flow |-> 1, workers |-> <<>>, k |-> 1, next |-> "", events |-> <<>>,
   pc |-> "flows"]

InitExp ==
  /\ idgen = 0
  /\ namespaces = <<>>
  /\ interfaces = <<>>
  /\ engine = EmptyEngine
  /\ result = NoResult
  /\ established = <<>>
  /\ requested = <<>>
  /\ failures = 0
  /\ ncalls = 0
  /\ \E flows \in SeqsUpTo(FlowArgs, MaxFlows),
        n \in 0 .. MaxQdiscStats,
        installed \in [tools -> BOOLEAN] :
       experiment = Experiment(flows, [k \in 1 .. n |-> k], installed)

\* the topology is built before the experiment is run and is not touched
\* by run_experiment
topology ==
  <<idgen, namespaces, interfaces, engine, result, established, requested,
    failures, ncalls>>

\* one round of the loop over exp.flows
SetupFlow ==
  /\ experiment.pc = "flows"
  /\ experiment.flow <= Len(experiment.flows)
  /\ experiment' = [traffic_generation(experiment, experiment.flow) EXCEPT
                      !.flow = @ + 1]
  /\ UNCHANGED topology

\* the loop is over: the ss and tc runners
SetupStatistics ==
  /\ experiment.pc = "flows"
  /\ experiment.flow > Len(experiment.flows)
  /\ experiment' = [statistics_collection(experiment) EXCEPT !.pc = "ping"]
  /\ UNCHANGED topology

\* the ping runners, then run_workers(exp_workers)
SetupPing ==
  /\ experiment.pc = "ping"
  /\ LET e == ping_collection(experiment)
     IN experiment' = run_workers(e, e.exp_workers, "parse")
  /\ UNCHANGED topology

StartWorker ==
  /\ experiment.pc = "start"
  /\ experiment' = start(experiment)
  /\ UNCHANGED topology

JoinWorker ==
  /\ experiment.pc = "join"
  /\ joined(experiment)
  /\ experiment' = join(experiment)
  /\ UNCHANGED topology

\* run_workers(get_parser_workers(exp_runners))
Parse ==
  /\ experiment.pc = "parse"
  /\ LET r == get_parser_workers(experiment, experiment.exp_runners)
     IN experiment' = run_workers(r.e, r.workers, "dump")
  /\ UNCHANGED topology

Dump ==
  /\ experiment.pc = "dump"
  /\ experiment' = [dump_json_ouputs(experiment) EXCEPT !.pc = "plot"]
  /\ UNCHANGED topology

\* run_workers(get_plotter_workers())
Plot ==
  /\ experiment.pc = "plot"
  /\ LET r == get_plotter_workers(experiment)
     IN experiment' = run_workers(r.e, r.workers, "cleanup")
  /\ UNCHANGED topology

Cleanup ==
  /\ experiment.pc = "cleanup"
  /\ experiment' = [cleanup(experiment) EXCEPT !.pc = "done"]
  /\ UNCHANGED topology

\* worker p, having been started, comes to its end
Terminate(p) ==
  /\ p \in DOMAIN experiment.processes
  /\ experiment.processes[p].status = "started"
  /\ experiment' = [experiment EXCEPT !.processes[p].status = "terminated"]
  /\ UNCHANGED topology

Terminates == \E p \in DOMAIN experiment.processes : Terminate(p)

NextExp ==
  SetupFlow \/ SetupStatistics \/ SetupPing \/ StartWorker \/ JoinWorker
    \/ Parse \/ Dump \/ Plot \/ Cleanup \/ Terminates

SpecExp == InitExp /\ [][NextExp]_vars

\* run_workers on its own: the main process calls it with a list of up to
\* MaxWorkers Processes that were created and not started
InitWorkers ==
  /\ idgen = 0
  /\ namespaces = <<>>
  /\ interfaces = <<>>
  /\ engine = EmptyEngine
  /\ result = NoResult
  /\ established = <<>>
  /\ requested = <<>>
  /\ failures = 0
  /\ ncalls = 0
  /\ \E n \in 0 .. MaxWorkers, method \in {"run", "parse"} :
       experiment =
         run_workers(
           [Experiment(<<>>, <<>>, [t \in tools |-> FALSE]) EXCEPT
              !.processes = [p \in 1 .. n |-> [target |-> p, method |-> method,
                                               status |-> "created"]]],
           [p \in 1 .. n |-> p], "returned")

NextWorkers == StartWorker \/ JoinWorker \/ Terminates

SpecWorkers == InitWorkers /\ [][NextWorkers]_vars

\* the main process is scheduled whenever it can take a step, and every
\* worker that was started terminates
SpecWorkersFair ==
  /\ SpecWorkers
  /\ WF_vars(StartWorker \/ JoinWorker)
  /\ \A p \in 1 .. MaxWorkers : WF_vars(Terminate(p))

-----------------------------------------------------------------------------
(* Claims about run_experiment and run_workers *)

Processes == DOMAIN experiment.processes

\* the workers of the traffic phase, the parsers, the plotters
Collecting ==
  {p \in Processes : experiment.processes[p].method \in {"run", "run_client"}}

Parsing == {p \in Processes : experiment.processes[p].method = "parse"}

Plotting ==
  {p \in Processes : experiment.processes[p].method
                       \in {"plot_ss", "plot_netperf", "plot_tc", "plot_ping"}}

AnyStarted(S) == \E p \in S : experiment.processes[p].status # "created"

AllTerminated(S) == \A p \in S : experiment.processes[p].status = "terminated"

Happened(event) ==
  \E k \in DOMAIN experiment.events : experiment.events[k] = event

\* the main process is inside run_workers
InRunWorkers == experiment.pc \in {"start", "join"}

\* get_parser_workers has been called
ParsersCreated ==
  \/ experiment.pc \in {"dump", "plot", "cleanup", "done"}
  \/ InRunWorkers /\ experiment.next \in {"dump", "cleanup"}

\* C25: once a parsing worker has been started every worker of the traffic
\* phase has terminated; once the results have been dumped the parsing
\* workers have been created and all of them have terminated; once a
\* plotting worker has been started the results have been dumped; once
\* cleanup has run the four plotting workers have terminated; and the dump
\* comes before the cleanup, each once.
PhasesOrdered ==
  /\ AnyStarted(Parsing) => AllTerminated(Collecting)
  /\ Happened("dump") =>
       ParsersCreated /\ AllTerminated(Parsing) /\ AllTerminated(Collecting)
  /\ AnyStarted(Plotting) => Happened("dump")
  /\ Happened("cleanup") =>
       Cardinality(Plotting) = 4 /\ AllTerminated(Plotting)
  /\ experiment.events \in {<<>>, <<"dump">>, <<"dump", "cleanup">>}

\* an experiment with traffic workers and parsers has run to its end
PhasesOrderedWitness ==
  /\ experiment.pc = "done"
  /\ Cardinality(Collecting) >= 3
  /\ Cardinality(Parsing) >= 3
  /\ AllTerminated(Processes)
  /\ experiment.events = <<"dump", "cleanup">>

\* the workers run_workers was called with
Workers == {experiment.workers[k] : k \in DOMAIN experiment.workers}

\* C26: while run_workers waits, every worker of its list has been
\* started; when it returns, every worker of its list has terminated; and,
\* the main process being scheduled and every started worker terminating,
\* a run_workers that was entered returns.
RunWorkersContract ==
  /\ [](experiment.pc = "join" =>
          \A p \in Workers : experiment.processes[p].status # "created")
  /\ [][(InRunWorkers /\ ~InRunWorkers') =>
          \A p \in Workers : experiment.processes'[p].status = "terminated"]_vars
  /\ (InRunWorkers ~> ~InRunWorkers)

\* run_workers waits for the first of three or more workers, all of them
\* running at once
RunWorkersContractWitness ==
  /\ experiment.pc = "join"
  /\ experiment.k = 1
  /\ Len(experiment.workers) >= 3
  /\ \A p \in Workers : experiment.processes[p].status = "started"

\* the runners whose collection worker was started
Collected ==
  {r \in DOMAIN experiment.objects :
     \E p \in Collecting : /\ experiment.processes[p].target = r
                           /\ experiment.processes[p].status # "created"}

ParsersOf(r) == {p \in Parsing : experiment.processes[p].target = r}

\* C27: once get_parser_workers has been called, every runner whose
\* collection worker was started is the target of exactly one parsing
\* worker.
EveryRunnerParsedOnce ==
  ParsersCreated => \A r \in Collected : Cardinality(ParsersOf(r)) = 1

\* what the code does: every runner but the IperfRunners has one parsing
\* worker, an IperfRunner has none
IperfRunnersNotParsed ==
  ParsersCreated =>
    \A r \in Collected :
      Cardinality(ParsersOf(r)) =
        IF experiment.objects[r].class = "IperfRunner" THEN 0 ELSE 1

====
